---------------------------- MODULE Spec2Model ----------------------------
(***************************************************************************)
(* rio_cm - RapidIO messaging channel manager (src/rio_cm.c).              *)
(*                                                                         *)
(* The model holds one or two kernel instances ("nodes").  A node is       *)
(* identified with the destID of its single mport (host_deviceid), and a   *)
(* remote device handle (a struct rio_dev) with the destID it stands for.   *)
(* Channel objects live in a pool (chan); the per-node IDR (idr) maps      *)
(* channel numbers to objects.  Caller threads and the single-threaded     *)
(* control worker of each node are executors with a program counter; a    *)
(* step is one critical section of the C code (or one call that touches   *)
(* a single lock).  Ring sizes and the channel-number range are scaled     *)
(* down; everything else follows the source.                               *)
(***************************************************************************)
EXTENDS Integers, Sequences, FiniteSets, TLC

(***************************** bounds **************************************)
\* log2 of the TX ring size (the source uses 128 = 2^7 and masks with size-1)
TxRingBits == 1
\* entries of a channel's RX ring and of its inuse[] table (128 in the source)
RxRingSize == 2
\* highest channel number (0xffff in the source)
MaxChNum == 3
\* channel objects that can ever be allocated
MaxObj == 3

(************************* program constants *******************************)
NULL == 0
RIOCM_TX_RING_SIZE == 2 ^ TxRingBits
RIOCM_RX_RING_SIZE == RxRingSize
RIOCM_MAX_CHNUM == MaxChNum
RIOCM_CHNUM_AUTO == 0
\* module parameter chstart (256 in the source), scaled with MaxChNum
chstart == 2

Nodes == {1, 2}
Objs == 1 .. MaxObj
ChNums == 1 .. RIOCM_MAX_CHNUM
TxSlots == 0 .. (RIOCM_TX_RING_SIZE - 1)
RxSlots == 0 .. (RIOCM_RX_RING_SIZE - 1)
Threads == {"t1", "t2", "t3"}
Workers == {"w1", "w2"}
Execs == Threads \cup Workers
\* the control worker (riocm_wq) of node n
WorkerOf(n) == IF n = 1 THEN "w1" ELSE "w2"
\* open files (owner tokens of channels)
Filps == {"f1", "f2"}

VARIABLES
    idr,    \* ch_idr of each node: channel number -> object or NULL
    chan,   \* struct rio_channel objects
    cm,     \* struct cm_dev of each node (TX ring, deferred list, peers)
    inb,    \* inbound mailbox of each node: messages the transport delivered
    wq,     \* riocm_wq of each node: control packets queued for rio_cm_handler
    thr,    \* executors: caller threads and control workers
    last,   \* the call or handler that ran in the last step, and its result
    hist    \* CONN_ACK packets handed to the control worker so far, per node

vars == <<idr, chan, cm, inb, wq, thr, last, hist>>

(***************************** wire format *********************************)
\* struct rio_ch_chan_hdr; pl tags the payload of a data message
Hdr(op, src_id, dst_id, src_ch, dst_ch, pl) ==
    [type |-> "RIO_CM_CHAN", ch_op |-> op, src_id |-> src_id, dst_id |-> dst_id,
     dst_ch |-> dst_ch, src_ch |-> src_ch, pl |-> pl]

\* the NULL buffer pointer
NULLBUF == Hdr("NULL", 0, 0, 0, 0, 0)
\* sizeof(struct rio_ch_chan_hdr)
HdrLen == 20

(*************************** channel objects *******************************)
EmptyRing ==
    [buf |-> [i \in RxSlots |-> NULLBUF], head |-> 0, tail |-> 0, count |-> 0,
     inuse |-> [i \in RxSlots |-> NULLBUF], inuse_cnt |-> 0]

\* a slot of the pool that kzalloc has not handed out yet
NoChan ==
    [mem |-> "none", node |-> NULL, id |-> 0, ref |-> 0, filp |-> "none",
     cmdev |-> NULL, rdev |-> NULL, state |-> "IDLE", loc_destid |-> 0,
     rem_destid |-> 0, rem_channel |-> 0, accept_queue |-> <<>>,
     wait_q |-> <<>>, comp |-> 0, rx_ring |-> EmptyRing]

\* the object riocm_ch_alloc returns for channel number id on node n
NewChan(n, id) ==
    [NoChan EXCEPT !.mem = "live", !.node = n, !.id = id, !.ref = 1]

\* kref_put(&ch->ref, riocm_ch_free): the release runs when the count
\* reaches zero and fires the destruction completion
riocm_put_channel(c) ==
    [c EXCEPT !.ref = c.ref - 1,
              !.comp = IF c.ref - 1 = 0 THEN c.comp + 1 ELSE c.comp]

\* kref_get on a channel found in the IDR
riocm_get_ref(c) == [c EXCEPT !.ref = c.ref + 1]

\* lowest unused slot of the object pool (0 when the pool is exhausted)
FreeObj ==
    IF \E o \in Objs : chan[o].mem = "none"
    THEN CHOOSE o \in Objs : chan[o].mem = "none" /\ \A p \in Objs : chan[p].mem = "none" => o <= p
    ELSE NULL

\* faulty variant: the scan ignores the lower end of the range
idr_alloc_low(tab, start, end) ==
    LET free == {i \in ChNums : i < end /\ tab[i] = NULL}
    IN IF free = {} THEN 0 ELSE CHOOSE i \in free : \A j \in free : i <= j

\* idr_alloc(&ch_idr, ch, start, end): lowest free number in [start, end), or 0
idr_alloc(tab, start, end) ==
    LET free == {i \in ChNums : i >= start /\ i < end /\ tab[i] = NULL}
    IN IF free = {} THEN 0 ELSE CHOOSE i \in free : \A j \in free : i <= j

(*************************** faulty variants *******************************)
(* Deliberately wrong versions of operators below.  Substituting one for   *)
(* the operator it copies must break the property that depends on it.      *)
(***************************************************************************)
\* riocm_post_send without the ring-full test of line 701
post_send_nofull(c, rdev, buffer, len, req, allocOk, hwrc) ==
    IF c.mport = NULL
    THEN [cm |-> c, rc |-> "ENODEV", out |-> <<>>]
    ELSE [cm |-> [c EXCEPT !.tx_buf[c.tx_slot] = buffer,
                           !.tx_cnt = @ + 1,
                           !.tx_slot = (@ + 1) % RIOCM_TX_RING_SIZE],
          rc |-> hwrc,
          out |-> IF hwrc = "OK" THEN <<[rdev |-> rdev, buffer |-> buffer]>> ELSE <<>>]

\* riocm_post_send that defers at a full ring whatever the req flag says
post_send_deferall(c, rdev, buffer, len, req, allocOk, hwrc) ==
    IF c.mport = NULL
    THEN [cm |-> c, rc |-> "ENODEV", out |-> <<>>]
    ELSE IF c.tx_cnt = RIOCM_TX_RING_SIZE
    THEN [cm |-> [c EXCEPT !.tx_reqs =
                     Append(@, [rdev |-> rdev, buffer |-> buffer, len |-> len])],
          rc |-> "EBUSY", out |-> <<>>]
    ELSE [cm |-> [c EXCEPT !.tx_buf[c.tx_slot] = buffer,
                           !.tx_cnt = @ + 1,
                           !.tx_slot = (@ + 1) % RIOCM_TX_RING_SIZE],
          rc |-> hwrc,
          out |-> IF hwrc = "OK" THEN <<[rdev |-> rdev, buffer |-> buffer]>> ELSE <<>>]

\* the acknowledge loop without the "ring is full" alternative of line 641
RECURSIVE txcq_ack_nofull(_, _)
txcq_ack_nofull(c, slot) ==
    IF c.tx_cnt # 0 /\ c.tx_ack_slot # slot
    THEN txcq_ack_nofull([c EXCEPT !.tx_buf[c.tx_ack_slot] = NULLBUF,
                                   !.tx_ack_slot = (@ + 1) % RIOCM_TX_RING_SIZE,
                                   !.tx_cnt = @ - 1], slot)
    ELSE c

\* riocm_post_send with list_add in place of list_add_tail at line 712
post_send_front(c, rdev, buffer, len, req, allocOk, hwrc) ==
    IF c.mport = NULL
    THEN [cm |-> c, rc |-> "ENODEV", out |-> <<>>]
    ELSE IF c.tx_cnt = RIOCM_TX_RING_SIZE
    THEN IF req
         THEN IF ~allocOk
              THEN [cm |-> c, rc |-> "ENOMEM", out |-> <<>>]
              ELSE [cm |-> [c EXCEPT !.tx_reqs =
                               <<[rdev |-> rdev, buffer |-> buffer, len |-> len]>> \o @],
                    rc |-> "EBUSY", out |-> <<>>]
         ELSE [cm |-> c, rc |-> "EBUSY", out |-> <<>>]
    ELSE [cm |-> [c EXCEPT !.tx_buf[c.tx_slot] = buffer,
                           !.tx_cnt = @ + 1,
                           !.tx_slot = (@ + 1) % RIOCM_TX_RING_SIZE],
          rc |-> hwrc,
          out |-> IF hwrc = "OK" THEN <<[rdev |-> rdev, buffer |-> buffer]>> ELSE <<>>]

\* the deferred-request loop that stops after the first request
txcq_drain_one(c, hwok, k, out) ==
    IF c.tx_reqs = <<>>
    THEN [cm |-> c, out |-> out, handed |-> k - 1]
    ELSE LET req == Head(c.tx_reqs)
         IN [cm |-> [c EXCEPT !.tx_reqs = Tail(@),
                              !.tx_buf[c.tx_slot] = req.buffer,
                              !.tx_cnt = @ + 1,
                              !.tx_slot = (@ + 1) % RIOCM_TX_RING_SIZE],
             out |-> IF hwok[k] THEN Append(out, [rdev |-> req.rdev, buffer |-> req.buffer])
                     ELSE out,
             handed |-> k]

\* faulty variant: the channel state is not tested before the buffer is stored
rx_push_nostate(c, buf) ==
    IF c.rx_ring.count = RIOCM_RX_RING_SIZE
    THEN [ch |-> c, rc |-> "ENOMEM"]
    ELSE [ch |-> [c EXCEPT !.rx_ring.buf[c.rx_ring.head] = buf,
                           !.rx_ring.head = (@ + 1) % RIOCM_RX_RING_SIZE,
                           !.rx_ring.count = @ + 1],
          rc |-> "OK"]

\* rio_rx_data_handler without the ring-full test of line 539
rx_push_nofull(c, buf) ==
    IF c.state # "CONNECTED"
    THEN [ch |-> c, rc |-> "EIO"]
    ELSE [ch |-> [c EXCEPT !.rx_ring.buf[c.rx_ring.head] = buf,
                           !.rx_ring.head = (@ + 1) % RIOCM_RX_RING_SIZE,
                           !.rx_ring.count = @ + 1],
          rc |-> "OK"]

(****************************** TX engine **********************************)
EmptyCm ==
    [mport |-> NULL, up |-> FALSE, tx_buf |-> [i \in TxSlots |-> NULLBUF], tx_slot |-> 0,
     tx_cnt |-> 0, tx_ack_slot |-> 0, tx_reqs |-> <<>>, peers |-> <<>>]

\* the cm_dev riocm_add_mport builds for the mport of node n and puts on
\* cm_dev_list (up)
NewCm(n) == [EmptyCm EXCEPT !.mport = n, !.up = TRUE]

\* riocm_post_send under tx_lock.  allocOk: kzalloc of the tx_req succeeds;
\* hwrc: what rio_add_outb_message returns.  Result: the cm_dev afterwards,
\* the return code, and the packets the transport accepted.
riocm_post_send(c, rdev, buffer, len, req, allocOk, hwrc) ==
    IF c.mport = NULL
    THEN [cm |-> c, rc |-> "ENODEV", out |-> <<>>]
    ELSE IF c.tx_cnt = RIOCM_TX_RING_SIZE
    THEN IF req
         THEN IF ~allocOk
              THEN [cm |-> c, rc |-> "ENOMEM", out |-> <<>>]
              ELSE [cm |-> [c EXCEPT !.tx_reqs =
                               Append(@, [rdev |-> rdev, buffer |-> buffer, len |-> len])],
                    rc |-> "EBUSY", out |-> <<>>]
         ELSE [cm |-> c, rc |-> "EBUSY", out |-> <<>>]
    ELSE [cm |-> [c EXCEPT !.tx_buf[c.tx_slot] = buffer,
                           !.tx_cnt = @ + 1,
                           !.tx_slot = (@ + 1) % RIOCM_TX_RING_SIZE],
          rc |-> hwrc,
          out |-> IF hwrc = "OK" THEN <<[rdev |-> rdev, buffer |-> buffer]>> ELSE <<>>]

\* the acknowledge loop of rio_txcq_handler (lines 640-647)
RECURSIVE txcq_ack(_, _)
txcq_ack(c, slot) ==
    IF c.tx_cnt # 0 /\ (c.tx_ack_slot # slot \/ c.tx_cnt = RIOCM_TX_RING_SIZE)
    THEN txcq_ack([c EXCEPT !.tx_buf[c.tx_ack_slot] = NULLBUF,
                            !.tx_ack_slot = (@ + 1) % RIOCM_TX_RING_SIZE,
                            !.tx_cnt = @ - 1], slot)
    ELSE c

\* the deferred-request loop of rio_txcq_handler (lines 660-673); hwok[k] tells
\* whether the transport accepts the k-th request handed to it
RECURSIVE txcq_drain(_, _, _, _)
txcq_drain(c, hwok, k, out) ==
    IF c.tx_reqs = <<>>
    THEN [cm |-> c, out |-> out, handed |-> k - 1]
    ELSE LET req == Head(c.tx_reqs)
             c1 == [c EXCEPT !.tx_reqs = Tail(@),
                             !.tx_buf[c.tx_slot] = req.buffer,
                             !.tx_cnt = @ + 1,
                             !.tx_slot = (@ + 1) % RIOCM_TX_RING_SIZE]
             o1 == IF hwok[k] THEN Append(out, [rdev |-> req.rdev, buffer |-> req.buffer])
                   ELSE out
         IN IF c1.tx_cnt = RIOCM_TX_RING_SIZE
            THEN [cm |-> c1, out |-> o1, handed |-> k]
            ELSE txcq_drain(c1, hwok, k + 1, o1)

\* rio_txcq_handler(cm, slot)
rio_txcq_handler(c, slot, hwok) ==
    LET c1 == txcq_ack(c, slot)
    IN IF c1.tx_reqs # <<>> /\ c1.tx_cnt < RIOCM_TX_RING_SIZE
       THEN txcq_drain(c1, hwok, 1, <<>>)
       ELSE [cm |-> c1, out |-> <<>>, handed |-> 0]

\* the transport carries accepted packets, in order, to the inbound mailbox of
\* the node the device handle stands for, if that node's mailbox is open
RECURSIVE Deliver(_, _)
Deliver(q, out) ==
    IF out = <<>> THEN q
    ELSE LET d == Head(out).rdev
         IN Deliver(IF d \in Nodes /\ cm[d].mport # NULL
                    THEN [q EXCEPT ![d] = Append(@, Head(out).buffer)]
                    ELSE q,
                    Tail(out))


(****************************** RX ring ************************************)
\* rio_rx_data_handler with the channel found and locked (lines 529-558)
rx_push(c, buf) ==
    IF c.state # "CONNECTED"
    THEN [ch |-> c, rc |-> "EIO"]
    ELSE IF c.rx_ring.count = RIOCM_RX_RING_SIZE
    THEN [ch |-> c, rc |-> "ENOMEM"]
    ELSE [ch |-> [c EXCEPT !.rx_ring.buf[c.rx_ring.head] = buf,
                           !.rx_ring.head = (@ + 1) % RIOCM_RX_RING_SIZE,
                           !.rx_ring.count = @ + 1],
          rc |-> "OK"]

\* the first free entry of inuse[], or RIOCM_RX_RING_SIZE when there is none
inuse_free(r) ==
    IF \E i \in RxSlots : r.inuse[i] = NULLBUF
    THEN CHOOSE i \in RxSlots : r.inuse[i] = NULLBUF /\ \A j \in RxSlots : r.inuse[j] = NULLBUF => i <= j
    ELSE RIOCM_RX_RING_SIZE

\* riocm_ch_receive from the dequeue on, channel locked (lines 895-915)
rx_pop(c) ==
    LET r == c.rx_ring
        rxmsg == r.buf[r.tail]
        r1 == [r EXCEPT !.buf[r.tail] = NULLBUF, !.count = @ - 1,
                        !.tail = (@ + 1) % RIOCM_RX_RING_SIZE]
        i == inuse_free(r1)
    IN IF i < RIOCM_RX_RING_SIZE
       THEN [ch |-> [c EXCEPT !.rx_ring = [r1 EXCEPT !.inuse[i] = rxmsg, !.inuse_cnt = @ + 1]],
             rc |-> "OK", buf |-> rxmsg]
       ELSE [ch |-> [c EXCEPT !.rx_ring = r1], rc |-> "ENOMEM", buf |-> NULLBUF]

\* faulty variant: the slot is cleared but inuse_cnt is not decremented
free_rxbuf_nodec(c, buf) ==
    LET r == c.rx_ring
    IN IF \E i \in RxSlots : r.inuse[i] = buf
       THEN LET i == CHOOSE i \in RxSlots : r.inuse[i] = buf /\ \A j \in RxSlots : r.inuse[j] = buf => i <= j
            IN [ch |-> [c EXCEPT !.rx_ring.inuse[i] = NULLBUF], rc |-> "OK"]
       ELSE [ch |-> c, rc |-> "EINVAL"]

\* riocm_ch_free_rxbuf
riocm_ch_free_rxbuf(c, buf) ==
    LET r == c.rx_ring
    IN IF \E i \in RxSlots : r.inuse[i] = buf
       THEN LET i == CHOOSE i \in RxSlots : r.inuse[i] = buf /\ \A j \in RxSlots : r.inuse[j] = buf => i <= j
            IN [ch |-> [c EXCEPT !.rx_ring.inuse[i] = NULLBUF, !.rx_ring.inuse_cnt = @ - 1],
                rc |-> "OK"]
       ELSE [ch |-> c, rc |-> "EINVAL"]

(****************************** executors **********************************)
IdleThr ==
    [pc |-> "idle", op |-> "none", node |-> 0, ch |-> NULL, ret |-> "none",
     todo |-> <<>>, objs |-> {}, new |-> NULL, rc0 |-> "none", cas |-> FALSE,
     sst |-> "none", srem |-> 0, buf |-> NULLBUF, msg |-> NULLBUF,
     woken |-> FALSE, timed |-> FALSE, filp |-> "none",
     rdev |-> NULL, locks |-> <<>>]

\* executor e returns ret from its call; sst and srem keep the channel's state
\* and remote channel number as they are at the return
Return(e, ret, c) ==
    [thr[e] EXCEPT !.pc = "done", !.ret = ret, !.sst = c.state, !.srem = c.rem_channel]

\* prepare_to_wait_exclusive(&ch->wait_q, ...) by executor e: queued at the
\* tail unless it is queued already
prepare_to_wait(c, e) ==
    IF \E i \in 1 .. Len(c.wait_q) : c.wait_q[i] = e THEN c
    ELSE [c EXCEPT !.wait_q = Append(@, e)]

\* finish_wait(&ch->wait_q, ...) by executor e
finish_wait(c, e) ==
    [c EXCEPT !.wait_q = SelectSeq(@, LAMBDA x : x # e)]

\* wake_up(&ch->wait_q): the first exclusive waiter is woken and leaves the
\* queue (autoremove_wake_function)
wake_up(c) == [c EXCEPT !.wait_q = IF @ = <<>> THEN @ ELSE Tail(@)]
WakeOne(c) == IF c.wait_q = <<>> THEN {} ELSE {Head(c.wait_q)}

\* faulty variant: only the first waiter is made runnable
WakeAll_first(c) == IF c.wait_q = <<>> THEN {} ELSE {c.wait_q[1]}

\* wake_up_all(&ch->wait_q)
wake_up_all(c) == [c EXCEPT !.wait_q = <<>>]
WakeAll(c) == {c.wait_q[i] : i \in 1 .. Len(c.wait_q)}

\* the executors in S become runnable
Woken(th, S) ==
    [e \in Execs |-> IF e \in S THEN [th[e] EXCEPT !.woken = TRUE] ELSE th[e]]

\* idr_find(&ch_idr, nr) on node n
idr_find(n, nr) == IF nr \in ChNums THEN idr[n][nr] ELSE NULL

(************************** single-step calls ******************************)
\* riocm_ch_alloc(ch_num) on node n: the channel number it registers, or 0
riocm_ch_alloc(n, ch_num) ==
    IF ch_num # RIOCM_CHNUM_AUTO
    THEN idr_alloc(idr[n], ch_num, ch_num + 1)
    ELSE idr_alloc(idr[n], chstart, RIOCM_MAX_CHNUM + 1)

\* cm_chan_create(filp, ch_num); allocOk: kzalloc of the channel object
\* succeeds (riocm_ch_alloc line 1355).  rc is what riocm_ch_alloc reports
ChanCreate(n, filp, ch_num, allocOk) ==
    LET id == riocm_ch_alloc(n, ch_num)
        o == FreeObj
    IN /\ o # NULL
       /\ IF ~allocOk
          THEN /\ UNCHANGED <<idr, chan>>
               /\ last' = [op |-> "create", node |-> n, req |-> ch_num, id |-> 0,
                           rc |-> "ENOMEM"]
          ELSE IF id = 0
          THEN /\ UNCHANGED <<idr, chan>>
               /\ last' = [op |-> "create", node |-> n, req |-> ch_num, id |-> 0,
                           rc |-> "EBUSY"]
          ELSE /\ idr' = [idr EXCEPT ![n][id] = o]
               /\ chan' = [chan EXCEPT ![o] = [NewChan(n, id) EXCEPT !.filp = filp]]
               /\ last' = [op |-> "create", node |-> n, req |-> ch_num, id |-> id,
                           rc |-> "OK"]
       /\ UNCHANGED <<cm, inb, wq, thr, hist>>

\* faulty variant: bind changes the state but does not store the cm_dev
ChanBind_nocm(n, id) ==
    LET o == idr[n][id]
        rc == IF ~cm[n].up THEN "ENODEV"
              ELSE IF o = NULL THEN "EINVAL"
              ELSE IF chan[o].state # "IDLE" THEN "EINVAL"
              ELSE "OK"
    IN /\ chan' = IF rc = "OK"
                  THEN [chan EXCEPT ![o].loc_destid = cm[n].mport, ![o].state = "CHAN_BOUND"]
                  ELSE chan
       /\ last' = [op |-> "bind", node |-> n, id |-> id, rc |-> rc]
       /\ UNCHANGED <<idr, cm, inb, wq, thr, hist>>

\* riocm_ch_bind(ch_id, mport_id, NULL); every node has the one mport, id 0
ChanBind(n, id) ==
    LET o == idr[n][id]
        rc == IF ~cm[n].up THEN "ENODEV"
              ELSE IF o = NULL THEN "EINVAL"
              ELSE IF chan[o].state # "IDLE" THEN "EINVAL"
              ELSE "OK"
    IN /\ chan' = IF rc = "OK"
                  THEN [chan EXCEPT ![o].cmdev = n, ![o].loc_destid = cm[n].mport,
                                    ![o].state = "CHAN_BOUND"]
                  ELSE chan
       /\ last' = [op |-> "bind", node |-> n, id |-> id, rc |-> rc]
       /\ UNCHANGED <<idr, cm, inb, wq, thr, hist>>

\* what riocm_ch_listen may do when the number is not registered: it passes
\* the NULL it got from riocm_get_channel to riocm_put_channel, whose kref_put
\* writes through it (line 1282).  The call faults and does not return
\* ("OOPS"), or, where the page at address 0 is mapped, goes on to return
\* EINVAL
ListenNullRcs == {"OOPS", "EINVAL"}

\* riocm_ch_listen(ch_id)
ChanListen(n, id) ==
    LET o == idr[n][id]
    IN IF o = NULL
       THEN /\ \E rc \in ListenNullRcs :
                  last' = [op |-> "listen", node |-> n, id |-> id, rc |-> rc]
            /\ UNCHANGED <<idr, chan, cm, inb, wq, thr, hist>>
       ELSE /\ chan' = IF chan[o].state = "CHAN_BOUND"
                       THEN [chan EXCEPT ![o].state = "LISTEN"]
                       ELSE chan
            /\ last' = [op |-> "listen", node |-> n, id |-> id,
                        rc |-> IF chan[o].state = "CHAN_BOUND" THEN "OK" ELSE "EINVAL"]
            /\ UNCHANGED <<idr, cm, inb, wq, thr, hist>>

\* the largest message the transport carries (4096 in the kernel headers)
MaxMsgSize == 22
RIO_MAX_MSG_SIZE == MaxMsgSize

\* the result of riocm_ch_send for a call that is rejected before the submit
SendReject(n, ch_id, len, rc) ==
    [op |-> "send", node |-> n, id |-> ch_id, len |-> len, rc |-> rc,
     sub |-> FALSE, req |-> FALSE, full |-> FALSE]

\* faulty variant: the reference taken by the lookup is kept when the channel
\* is not connected
ch_send_noput(n, ch_id, len, pl, hwrc) ==
    IF ch_id = 0 \/ len = 0 \/ len > RIO_MAX_MSG_SIZE
    THEN /\ last' = SendReject(n, ch_id, len, "EINVAL")
         /\ UNCHANGED <<idr, chan, cm, inb, wq, thr, hist>>
    ELSE LET o == idr[n][ch_id]
         IN IF o = NULL
            THEN /\ last' = SendReject(n, ch_id, len, "ENODEV")
                 /\ UNCHANGED <<idr, chan, cm, inb, wq, thr, hist>>
            ELSE LET c == chan[o]
                     hdr == Hdr("CM_DATA_MSG", c.loc_destid, c.rem_destid, c.id, c.rem_channel, pl)
                     r == riocm_post_send(cm[c.cmdev], c.rdev, hdr, len, FALSE, TRUE, hwrc)
                 IN IF c.state # "CONNECTED"
                    THEN /\ chan' = [chan EXCEPT ![o] = riocm_get_ref(c)]
                         /\ last' = SendReject(n, ch_id, len, "EAGAIN")
                         /\ UNCHANGED <<idr, cm, inb, wq, thr, hist>>
                    ELSE /\ chan' = [chan EXCEPT ![o] = riocm_put_channel(riocm_get_ref(c))]
                         /\ cm' = [cm EXCEPT ![c.cmdev] = r.cm]
                         /\ inb' = Deliver(inb, r.out)
                         /\ last' = [op |-> "send", node |-> n, id |-> ch_id, len |-> len, rc |-> r.rc,
                                     sub |-> TRUE, req |-> FALSE,
                                     full |-> (cm[c.cmdev].tx_cnt = RIOCM_TX_RING_SIZE)]
                         /\ UNCHANGED <<idr, wq, thr, hist>>

\* riocm_ch_send(ch_id, buf, len) with a buffer; pl tags the payload
riocm_ch_send(n, ch_id, len, pl, hwrc) ==
    IF ch_id = 0 \/ len = 0 \/ len > RIO_MAX_MSG_SIZE
    THEN /\ last' = SendReject(n, ch_id, len, "EINVAL")
         /\ UNCHANGED <<idr, chan, cm, inb, wq, thr, hist>>
    ELSE LET o == idr[n][ch_id]
         IN IF o = NULL
            THEN /\ last' = SendReject(n, ch_id, len, "ENODEV")
                 /\ UNCHANGED <<idr, chan, cm, inb, wq, thr, hist>>
            ELSE LET c == chan[o]
                     hdr == Hdr("CM_DATA_MSG", c.loc_destid, c.rem_destid, c.id, c.rem_channel, pl)
                     r == riocm_post_send(cm[c.cmdev], c.rdev, hdr, len, FALSE, TRUE, hwrc)
                 IN IF c.state # "CONNECTED"
                    THEN /\ chan' = [chan EXCEPT ![o] = riocm_put_channel(riocm_get_ref(c))]
                         /\ last' = SendReject(n, ch_id, len, "EAGAIN")
                         /\ UNCHANGED <<idr, cm, inb, wq, thr, hist>>
                    ELSE /\ chan' = [chan EXCEPT ![o] = riocm_put_channel(riocm_get_ref(c))]
                         /\ cm' = [cm EXCEPT ![c.cmdev] = r.cm]
                         /\ inb' = Deliver(inb, r.out)
                         /\ last' = [op |-> "send", node |-> n, id |-> ch_id, len |-> len, rc |-> r.rc,
                                     sub |-> TRUE, req |-> FALSE,
                                     full |-> (cm[c.cmdev].tx_cnt = RIOCM_TX_RING_SIZE)]
                         /\ UNCHANGED <<idr, wq, thr, hist>>

\* riocm_ch_send(ch_id, buf, len) with valid arguments
ChanSend(n, id, pl, hwrc) == riocm_ch_send(n, id, HdrLen + 1, pl, hwrc)

\* riocm_outb_msg_event -> rio_txcq_handler(cm, slot) on a running mport
TxCompletion(n, slot, hwok) ==
    LET r == rio_txcq_handler(cm[n], slot, hwok)
    IN /\ cm[n].mport # NULL
       /\ cm' = [cm EXCEPT ![n] = r.cm]
       /\ inb' = Deliver(inb, r.out)
       /\ last' = [op |-> "txcq", node |-> n, slot |-> slot, handed |-> r.handed,
                   cnt |-> cm[n].tx_cnt, reqs |-> cm[n].tx_reqs]
       /\ UNCHANGED <<idr, chan, wq, thr, hist>>


(*************************** close procedure *******************************)
\* faulty variant: the close notification is never handed to the TX path
send_close_none(c, hdrOk, allocOk, hwrc) ==
    [cm |-> cm[c.cmdev], rc |-> "OK", out |-> <<>>]

\* riocm_send_close(ch): the CONN_CLOSE header and its submission; hdrOk:
\* kzalloc of the header succeeds
riocm_send_close(c, hdrOk, allocOk, hwrc) ==
    IF ~hdrOk
    THEN [cm |-> cm[c.cmdev], rc |-> "ENOMEM", out |-> <<>>]
    ELSE riocm_post_send(cm[c.cmdev], c.rdev,
                         Hdr("CM_CONN_CLOSE", c.loc_destid, c.rem_destid, c.id, c.rem_channel, 0),
                         HdrLen, TRUE, allocOk, hwrc)

\* riocm_ch_close up to its wait (lines 1505-1511): swap the state to
\* DESTROYING, send CONN_CLOSE if it was CONNECTED, wake the waiters and drop
\* the caller's reference
ChClose1(e, hdrOk, allocOk, hwrc) ==
    /\ thr[e].pc = "ch_close"
    /\ LET o == Head(thr[e].todo)
           c == chan[o]
           sent == (c.state = "CONNECTED")
           r == riocm_send_close(c, hdrOk, allocOk, hwrc)
       IN /\ chan' = [chan EXCEPT ![o] =
                        riocm_put_channel(wake_up_all([c EXCEPT !.state = "DESTROYING"]))]
          /\ cm' = IF sent THEN [cm EXCEPT ![c.cmdev] = r.cm] ELSE cm
          /\ inb' = IF sent THEN Deliver(inb, r.out) ELSE inb
          /\ last' = [op |-> "ch_close", node |-> thr[e].node, ch |-> o, old |-> c.state,
                      rc |-> IF sent THEN r.rc ELSE "none", sub |-> (sent /\ hdrOk),
                      req |-> sent,
                      alloc |-> allocOk,
                      full |-> (sent /\ cm[c.cmdev].tx_cnt = RIOCM_TX_RING_SIZE)]
          /\ thr' = Woken([thr EXCEPT ![e].pc = "ch_wait"], WakeAll(c))
    /\ UNCHANGED <<idr, wq, hist>>

\* where executor e goes when riocm_ch_close returned ret for the head of its
\* list: on to the next channel, back to its caller, or (the worker) idle
AfterClose(e, ret) ==
    IF Tail(thr[e].todo) # <<>>
    THEN [thr[e] EXCEPT !.pc = "ch_close", !.todo = Tail(@)]
    ELSE IF e \in Workers
    THEN IdleThr
    ELSE IF thr[e].op = "remove_mport"
    THEN [thr[e] EXCEPT !.pc = "mp_free", !.todo = <<>>]
    ELSE [thr[e] EXCEPT !.pc = "done", !.todo = <<>>,
                        !.ret = IF thr[e].op = "close" THEN ret ELSE "OK"]

\* riocm_ch_close from wait_for_completion_interruptible_timeout on (lines
\* 1512-1533): how = "done" when the completion has fired (the channel is
\* then freed), "timeout" or "signal" when it has not
ChCloseWait(e, how) ==
    /\ thr[e].pc = "ch_wait"
    /\ LET o == Head(thr[e].todo)
       IN /\ how = "done" => chan[o].comp > 0
          /\ how # "done" => chan[o].comp = 0
          /\ how = "signal" => e \in Threads
          /\ chan' = IF how = "done"
                     THEN [chan EXCEPT ![o].comp = @ - 1, ![o].mem = "freed"]
                     ELSE chan
          /\ last' = [op |-> "ch_close_ret", node |-> thr[e].node, ch |-> o,
                      rc |-> CASE how = "done" -> "OK"
                               [] how = "timeout" -> "ETIMEDOUT"
                               [] OTHER -> "EINTR"]
          /\ thr' = [thr EXCEPT ![e] = AfterClose(e, last'.rc)]
    /\ UNCHANGED <<idr, cm, inb, wq, hist>>

\* faulty variant: the channel stays in the IDR
idr_remove_keep(tab, n, id) == tab

\* idr_remove(&ch_idr, id) on node n
idr_remove(tab, n, id) == [tab EXCEPT ![n][id] = NULL]

\* faulty variant: without the test of idr_find's result the close procedure
\* runs on the channel object that last had the number
ChanClose_stale(t, n, filp, id) ==
    /\ thr[t].pc = "idle"
    /\ LET o == IF idr[n][id] # NULL THEN idr[n][id]
                ELSE IF \E p \in Objs : chan[p].node = n /\ chan[p].id = id
                THEN CHOOSE p \in Objs : chan[p].node = n /\ chan[p].id = id
                ELSE NULL
       IN IF o = NULL
          THEN /\ thr' = [thr EXCEPT ![t] = [IdleThr EXCEPT !.pc = "done", !.op = "close",
                                                             !.node = n, !.ret = "OK"]]
               /\ UNCHANGED idr
          ELSE /\ thr' = [thr EXCEPT ![t] = [IdleThr EXCEPT !.pc = "ch_close", !.op = "close",
                                                             !.node = n, !.ch = o,
                                                             !.todo = <<o>>, !.objs = {o}]]
               /\ idr' = idr_remove(idr, n, id)
    /\ last' = [op |-> "close", node |-> n, id |-> id]
    /\ UNCHANGED <<chan, cm, inb, wq, hist>>

\* faulty variant: cm_chan_close without the idr_remove of line 1774
ChanClose_noremove(t, n, filp, id) ==
    /\ thr[t].pc = "idle"
    /\ LET o == idr[n][id]
       IN IF o = NULL
          THEN thr' = [thr EXCEPT ![t] = [IdleThr EXCEPT !.pc = "done", !.op = "close",
                                                          !.node = n, !.ret = "OK"]]
          ELSE IF chan[o].filp # filp
          THEN thr' = [thr EXCEPT ![t] = [IdleThr EXCEPT !.pc = "done", !.op = "close",
                                                          !.node = n, !.ch = o, !.ret = "EINVAL"]]
          ELSE thr' = [thr EXCEPT ![t] = [IdleThr EXCEPT !.pc = "ch_close", !.op = "close",
                                                          !.node = n, !.ch = o,
                                                          !.todo = <<o>>, !.objs = {o}]]
    /\ last' = [op |-> "close", node |-> n, id |-> id]
    /\ UNCHANGED <<idr, chan, cm, inb, wq, hist>>

\* cm_chan_close(filp, ch_num) up to its call of riocm_ch_close
ChanClose(t, n, filp, id) ==
    /\ thr[t].pc = "idle"
    /\ LET o == idr[n][id]
       IN IF o = NULL
          THEN /\ thr' = [thr EXCEPT ![t] = [IdleThr EXCEPT !.pc = "done", !.op = "close",
                                                             !.node = n, !.ret = "OK"]]
               /\ UNCHANGED idr
          ELSE IF chan[o].filp # filp
          THEN /\ thr' = [thr EXCEPT ![t] = [IdleThr EXCEPT !.pc = "done", !.op = "close",
                                                             !.node = n, !.ch = o, !.ret = "EINVAL"]]
               /\ UNCHANGED idr
          ELSE /\ thr' = [thr EXCEPT ![t] = [IdleThr EXCEPT !.pc = "ch_close", !.op = "close",
                                                             !.node = n, !.ch = o,
                                                             !.todo = <<o>>, !.objs = {o}]]
               /\ idr' = idr_remove(idr, n, id)
    /\ last' = [op |-> "close", node |-> n, id |-> id]
    /\ UNCHANGED <<chan, cm, inb, wq, hist>>


(************************* inbound dispatch *********************************)
\* messages that may wait in an inbound mailbox (the hardware queue is finite)
MaxInb == 2
\* distinct data buffers that can be live at a time
MaxData == 3

\* payload tags of the data buffers node n holds: a new buffer is none of them
LivePl(n) ==
    {inb[n][i].pl : i \in 1 .. Len(inb[n])}
      \cup UNION {{chan[o].rx_ring.buf[i].pl : i \in RxSlots}
                    \cup {chan[o].rx_ring.inuse[i].pl : i \in RxSlots} :
                  o \in {p \in Objs : chan[p].node = n /\ chan[p].mem = "live"}}
      \cup {thr[t].buf.pl : t \in Threads}

\* riocm_inb_msg_event: the transport of node n has received packet hdr from a
\* sender outside the model
Inject(n, hdr) ==
    /\ cm[n].mport # NULL
    /\ Len(inb[n]) < MaxInb
    /\ hdr.ch_op = "CM_DATA_MSG" => hdr.pl \notin LivePl(n)
    /\ inb' = [inb EXCEPT ![n] = Append(@, hdr)]
    /\ last' = [op |-> "inject", node |-> n, msg |-> hdr]
    /\ UNCHANGED <<idr, chan, cm, wq, thr, hist>>

\* rio_ibmsg_handler for one message of node n's inbound mailbox: a data
\* message goes through rio_rx_data_handler, any other channel message to the
\* control worker (workOk: kmalloc of the work item succeeds)
RxMsg(n, workOk) ==
    /\ cm[n].mport # NULL
    /\ inb[n] # <<>>
    /\ LET msg == Head(inb[n])
           o == idr_find(n, msg.dst_ch)
           r == rx_push(chan[o], msg)
       IN /\ inb' = [inb EXCEPT ![n] = Tail(@)]
          /\ IF msg.type # "RIO_CM_CHAN"
             THEN /\ last' = [op |-> "rx", node |-> n, msg |-> msg, ch |-> NULL, rc |-> "DROP"]
                  /\ UNCHANGED <<chan, wq, thr, hist>>
             ELSE IF msg.ch_op = "CM_DATA_MSG"
             THEN IF o = NULL
                  THEN /\ last' = [op |-> "rx", node |-> n, msg |-> msg, ch |-> NULL,
                                   rc |-> "ENODEV"]
                       /\ UNCHANGED <<chan, wq, thr, hist>>
                  ELSE /\ chan' = [chan EXCEPT ![o] = IF r.rc = "OK" THEN wake_up(r.ch) ELSE r.ch]
                       /\ thr' = IF r.rc = "OK" THEN Woken(thr, WakeOne(chan[o])) ELSE thr
                       /\ last' = [op |-> "rx", node |-> n, msg |-> msg, ch |-> o, rc |-> r.rc]
                       /\ UNCHANGED <<wq, hist>>
             ELSE /\ wq' = IF workOk THEN [wq EXCEPT ![n] = Append(@, msg)] ELSE wq
                  /\ hist' = IF workOk /\ msg.ch_op = "CM_CONN_ACK"
                             THEN hist \cup {[node |-> n, hdr |-> msg]} ELSE hist
                  /\ last' = [op |-> "rx", node |-> n, msg |-> msg, ch |-> NULL,
                              rc |-> IF workOk THEN "QUEUED" ELSE "DROP"]
                  /\ UNCHANGED <<chan, thr>>
    /\ UNCHANGED <<idr, cm>>

(***************************** control worker ******************************)
\* faulty variant: the request is put at the head of the accept queue
req_handler_head(n, hh, allocOk) ==
    LET o == idr_find(n, hh.dst_ch)
    IN IF o = NULL
       THEN [chan |-> chan, wake |-> {}, rc |-> "ENODEV"]
       ELSE IF chan[o].state # "LISTEN"
       THEN [chan |-> chan, wake |-> {}, rc |-> "EINVAL"]
       ELSE IF ~allocOk
       THEN [chan |-> chan, wake |-> {}, rc |-> "ENOMEM"]
       ELSE [chan |-> [chan EXCEPT ![o] =
                         wake_up([chan[o] EXCEPT !.accept_queue =
                                    <<[destid |-> hh.src_id, chan |-> hh.src_ch,
                                       cmdev |-> n]>> \o @])],
             wake |-> WakeOne(chan[o]), rc |-> "OK"]

\* riocm_req_handler(cm, req_data) on node n; allocOk: kzalloc of the conn_req
\* succeeds.  The result is the channel table afterwards, whom to wake, and
\* the return code.
riocm_req_handler(n, hh, allocOk) ==
    LET o == idr_find(n, hh.dst_ch)
    IN IF o = NULL
       THEN [chan |-> chan, wake |-> {}, rc |-> "ENODEV"]
       ELSE IF chan[o].state # "LISTEN"
       THEN [chan |-> chan, wake |-> {}, rc |-> "EINVAL"]
       ELSE IF ~allocOk
       THEN [chan |-> chan, wake |-> {}, rc |-> "ENOMEM"]
       ELSE [chan |-> [chan EXCEPT ![o] =
                         wake_up([chan[o] EXCEPT !.accept_queue =
                                    Append(@, [destid |-> hh.src_id, chan |-> hh.src_ch,
                                               cmdev |-> n])])],
             wake |-> WakeOne(chan[o]), rc |-> "OK"]

\* rio_cm_handler: the control worker of node n takes the next packet off its
\* queue.  A CONN_REQ is handled in this step; for a CONN_ACK and a CONN_CLOSE
\* this is the handler's first critical section (the channel lookup).
CmHandler(n, allocOk) ==
    LET w == WorkerOf(n)
        hdr == Head(wq[n])
        o == idr_find(n, hdr.dst_ch)
        me == [IdleThr EXCEPT !.op = "work", !.node = n, !.msg = hdr]
        r == riocm_req_handler(n, hdr, allocOk)
    IN /\ thr[w].pc = "idle"
       /\ wq[n] # <<>>
       /\ wq' = [wq EXCEPT ![n] = Tail(@)]
       /\ IF ~cm[n].up
          THEN /\ last' = [op |-> "work", node |-> n, msg |-> hdr, ch |-> NULL, rc |-> "DOWN"]
               /\ UNCHANGED <<idr, chan, thr>>
          ELSE IF hdr.ch_op = "CM_CONN_REQ"
          THEN /\ chan' = r.chan
               /\ thr' = Woken(thr, r.wake)
               /\ last' = [op |-> "work", node |-> n, msg |-> hdr, ch |-> o, rc |-> r.rc]
               /\ UNCHANGED idr
          ELSE IF hdr.ch_op = "CM_CONN_ACK"
          THEN IF o = NULL
               THEN /\ last' = [op |-> "work", node |-> n, msg |-> hdr, ch |-> NULL,
                                rc |-> "ENODEV"]
                    /\ UNCHANGED <<idr, chan, thr>>
               ELSE IF chan[o].state # "CONNECT"
               THEN /\ chan' = [chan EXCEPT ![o] = riocm_put_channel(riocm_get_ref(chan[o]))]
                    /\ last' = [op |-> "work", node |-> n, msg |-> hdr, ch |-> o,
                                rc |-> "EINVAL"]
                    /\ UNCHANGED <<idr, thr>>
               ELSE /\ chan' = [chan EXCEPT ![o] = riocm_get_ref(chan[o])]
                    /\ thr' = [thr EXCEPT ![w] = [me EXCEPT !.pc = "resp_exch", !.ch = o]]
                    /\ last' = [op |-> "work", node |-> n, msg |-> hdr, ch |-> o, rc |-> "OK"]
                    /\ UNCHANGED idr
          ELSE IF hdr.ch_op = "CM_CONN_CLOSE"
          THEN IF o = NULL
               THEN /\ last' = [op |-> "work", node |-> n, msg |-> hdr, ch |-> NULL,
                                rc |-> "ENODEV"]
                    /\ UNCHANGED <<idr, chan, thr>>
               ELSE /\ idr' = idr_remove(idr, n, chan[o].id)
                    /\ thr' = [thr EXCEPT ![w] = [me EXCEPT !.pc = "close_exch", !.ch = o,
                                                                !.todo = <<o>>, !.objs = {o},
                                                                !.sst = chan[o].state]]
                    /\ last' = [op |-> "work", node |-> n, msg |-> hdr, ch |-> o, rc |-> "OK"]
                    /\ UNCHANGED chan
          ELSE /\ last' = [op |-> "work", node |-> n, msg |-> hdr, ch |-> NULL, rc |-> "EINVAL"]
               /\ UNCHANGED <<idr, chan, thr>>
       /\ UNCHANGED <<cm, inb, hist>>

\* riocm_resp_handler, line 431: riocm_exch(ch, RIO_CM_CONNECTED)
RespExch(n) ==
    LET w == WorkerOf(n)
        o == thr[w].ch
    IN /\ thr[w].pc = "resp_exch"
       /\ chan' = [chan EXCEPT ![o].state = "CONNECTED"]
       /\ thr' = [thr EXCEPT ![w].pc = "resp_set", ![w].sst = chan[o].state]
       /\ last' = [op |-> "resp_exch", node |-> n, ch |-> o, old |-> chan[o].state]
       /\ UNCHANGED <<idr, cm, inb, wq, hist>>

\* faulty variant: the response handler leaves rem_channel as connect set it
RespSet_norem(n) ==
    LET w == WorkerOf(n)
        o == thr[w].ch
        c == chan[o]
    IN /\ thr[w].pc = "resp_set"
       /\ chan' = [chan EXCEPT ![o] = riocm_put_channel(wake_up(c))]
       /\ thr' = Woken([thr EXCEPT ![w] = IdleThr], WakeOne(c))
       /\ last' = [op |-> "resp_set", node |-> n, ch |-> o, msg |-> thr[w].msg]
       /\ UNCHANGED <<idr, cm, inb, wq, hist>>

\* riocm_resp_handler, lines 432-434: record the remote channel number, wake
\* the connecting thread, drop the reference
RespSet(n) ==
    LET w == WorkerOf(n)
        o == thr[w].ch
        c == [chan[o] EXCEPT !.rem_channel = thr[w].msg.src_ch]
    IN /\ thr[w].pc = "resp_set"
       /\ chan' = [chan EXCEPT ![o] = riocm_put_channel(wake_up(c))]
       /\ thr' = Woken([thr EXCEPT ![w] = IdleThr], WakeOne(c))
       /\ last' = [op |-> "resp_set", node |-> n, ch |-> o, msg |-> thr[w].msg]
       /\ UNCHANGED <<idr, cm, inb, wq, hist>>

\* riocm_close_handler, line 461: riocm_exch(ch, RIO_CM_DISCONNECT); the
\* worker goes on into riocm_ch_close
CloseExch(n) ==
    LET w == WorkerOf(n)
        o == thr[w].ch
    IN /\ thr[w].pc = "close_exch"
       /\ chan' = [chan EXCEPT ![o].state = "DISCONNECT"]
       /\ thr' = [thr EXCEPT ![w].pc = "ch_close"]
       /\ last' = [op |-> "close_exch", node |-> n, ch |-> o, old |-> chan[o].state]
       /\ UNCHANGED <<idr, cm, inb, wq, hist>>

(******************************* receive ***********************************)
\* executor e leaves its call with ret after dropping its reference to
\* channel object o, whose record is c
PutReturn(e, o, c, ret) ==
    /\ chan' = [chan EXCEPT ![o] = riocm_put_channel(c)]
    /\ thr' = [thr EXCEPT ![e] = Return(e, ret, chan'[o])]

\* the call of thread t has returned to user space; t is free for another
Retire(t) ==
    /\ thr[t].pc = "done"
    /\ thr' = [thr EXCEPT ![t] = IdleThr]
    /\ last' = [op |-> "retire", thread |-> t]
    /\ UNCHANGED <<idr, chan, cm, inb, wq, hist>>

\* cm_chan_msg_rcv up to the unlocked tests of riocm_ch_receive (lines
\* 1899-1885): look the channel up, test its state and inuse_cnt
RcvStart(t, n, id, timed) ==
    /\ thr[t].pc = "idle"
    /\ LET o == idr_find(n, id)
           me == [IdleThr EXCEPT !.op = "receive", !.node = n, !.ch = o, !.timed = timed]
       IN IF o = NULL
          THEN /\ thr' = [thr EXCEPT ![t] = [me EXCEPT !.pc = "done", !.ret = "ENODEV"]]
               /\ UNCHANGED chan
          ELSE LET c == riocm_get_ref(chan[o])
               IN IF c.state # "CONNECTED"
                  THEN /\ chan' = [chan EXCEPT ![o] = riocm_put_channel(c)]
                       /\ thr' = [thr EXCEPT ![t] = [me EXCEPT !.pc = "done", !.ret = "EAGAIN",
                                                                  !.sst = c.state]]
                  ELSE IF c.rx_ring.inuse_cnt = RIOCM_RX_RING_SIZE
                  THEN /\ chan' = [chan EXCEPT ![o] = riocm_put_channel(c)]
                       /\ thr' = [thr EXCEPT ![t] = [me EXCEPT !.pc = "done", !.ret = "ENOMEM",
                                                                  !.sst = c.state]]
                  ELSE /\ chan' = [chan EXCEPT ![o] = c]
                       /\ thr' = [thr EXCEPT ![t] = [me EXCEPT !.pc = "rcv_lock"]]
    /\ last' = [op |-> "receive", node |-> n, id |-> id, thread |-> t]
    /\ UNCHANGED <<idr, cm, inb, wq, hist>>

\* the dequeue of riocm_ch_receive by thread t on channel object o (channel
\* locked): on to the release of the buffer, or out with ENOMEM
RcvPop(t, o, c) ==
    LET r == rx_pop(c)
    IN IF r.rc = "OK"
       THEN /\ chan' = [chan EXCEPT ![o] = r.ch]
            /\ thr' = [thr EXCEPT ![t].pc = "rcv_free", ![t].buf = r.buf, ![t].woken = FALSE]
       ELSE PutReturn(t, o, r.ch, "ENOMEM")

\* riocm_ch_receive takes the channel lock (line 887): dequeue if the ring has
\* data, else enter riocm_wait_for_rx_data
RcvLock(t) ==
    /\ thr[t].pc = "rcv_lock"
    /\ LET o == thr[t].ch
           c == chan[o]
       IN IF c.rx_ring.count = 0
          THEN /\ chan' = [chan EXCEPT ![o] = prepare_to_wait(c, t)]
               /\ thr' = [thr EXCEPT ![t].pc = "rcv_wait", ![t].woken = FALSE]
          ELSE RcvPop(t, o, c)
    /\ last' = [op |-> "rcv_lock", node |-> thr[t].node, thread |-> t]
    /\ UNCHANGED <<idr, cm, inb, wq, hist>>

\* riocm_wait_for_rx_data after schedule_timeout (lines 820-840); why tells
\* what ended the sleep: "wake" (a wake-up), "signal" or "timeout"
RcvWake(t, why) ==
    /\ thr[t].pc = "rcv_wait"
    /\ why = "wake" => thr[t].woken
    /\ why = "timeout" => thr[t].timed
    /\ LET o == thr[t].ch
           c == finish_wait(chan[o], t)
       IN IF why = "signal"
          THEN PutReturn(t, o, c, "EINTR")
          ELSE IF c.rx_ring.count # 0
          THEN RcvPop(t, o, c)
          ELSE IF c.state # "CONNECTED"
          THEN PutReturn(t, o, c, "ECONNRESET")
          ELSE IF why = "timeout"
          THEN PutReturn(t, o, c, "ETIME")
          ELSE /\ chan' = [chan EXCEPT ![o] = prepare_to_wait(chan[o], t)]
               /\ thr' = [thr EXCEPT ![t].woken = FALSE]
    /\ last' = [op |-> "rcv_wake", node |-> thr[t].node, thread |-> t, why |-> why]
    /\ UNCHANGED <<idr, cm, inb, wq, hist>>

\* cm_chan_msg_rcv after a successful receive (lines 1910-1917): the message
\* is copied out and the buffer released
RcvFree(t) ==
    /\ thr[t].pc = "rcv_free"
    /\ LET o == thr[t].ch
           r == riocm_ch_free_rxbuf(chan[o], thr[t].buf)
       IN /\ chan' = [chan EXCEPT ![o] = riocm_put_channel(r.ch)]
          /\ thr' = [thr EXCEPT ![t] = [Return(t, "OK", chan'[o]) EXCEPT !.msg = thr[t].buf,
                                                                           !.buf = NULLBUF]]
          /\ last' = [op |-> "rcv_free", node |-> thr[t].node, thread |-> t, rc |-> r.rc]
    /\ UNCHANGED <<idr, cm, inb, wq, hist>>

\* riocm_ch_free_rxbuf(ch, buf) called on its own for the channel numbered id
\* of node n, with any buffer pointer other than NULL
FreeRxbuf(n, id, buf) ==
    /\ idr_find(n, id) # NULL
    /\ buf # NULLBUF
    /\ LET o == idr_find(n, id)
           r == riocm_ch_free_rxbuf(chan[o], buf)
       IN /\ chan' = [chan EXCEPT ![o] = r.ch]
          /\ last' = [op |-> "free_rxbuf", node |-> n, ch |-> o, buf |-> buf, rc |-> r.rc]
    /\ UNCHANGED <<idr, cm, inb, wq, thr, hist>>

(******************************* connect ***********************************)
\* faulty variant: the peer list is not searched
IsPeer_any(n, rem_destid) == TRUE

\* rem_destid is on the peer list of node n
IsPeer(n, rem_destid) ==
    \E i \in 1 .. Len(cm[n].peers) : cm[n].peers[i] = rem_destid

\* riocm_ch_connect(loc_ch, mport, rem_destid, rem_ch) up to its call of
\* riocm_post_send and the roll-back after a failed submit (lines 992-1063)
ConnectStart(t, n, id, rem_destid, rem_ch, allocOk, hwrc) ==
    /\ thr[t].pc = "idle"
    /\ LET o == idr_find(n, id)
           me == [IdleThr EXCEPT !.op = "connect", !.node = n, !.ch = o]
           c == [riocm_get_ref(chan[o]) EXCEPT !.state = "CONNECT", !.cmdev = n,
                                               !.rdev = rem_destid, !.loc_destid = cm[n].mport,
                                               !.rem_channel = rem_ch]
           r == riocm_post_send(cm[n], rem_destid,
                                Hdr("CM_CONN_REQ", c.loc_destid, rem_destid, id, rem_ch, 0),
                                HdrLen, TRUE, allocOk, hwrc)
       IN IF ~cm[n].up \/ ~IsPeer(n, rem_destid) \/ o = NULL
          THEN /\ thr' = [thr EXCEPT ![t] = [me EXCEPT !.pc = "done", !.ret = "ENODEV"]]
               /\ UNCHANGED <<chan, cm, inb>>
          ELSE IF chan[o].state # "IDLE"
          THEN /\ chan' = [chan EXCEPT ![o] = riocm_put_channel(riocm_get_ref(chan[o]))]
               /\ thr' = [thr EXCEPT ![t] = [me EXCEPT !.pc = "done", !.ret = "EINVAL"]]
               /\ UNCHANGED <<cm, inb>>
          ELSE /\ cm' = [cm EXCEPT ![n] = r.cm]
               /\ inb' = Deliver(inb, r.out)
               /\ IF r.rc \notin {"OK", "EBUSY"}
                  THEN /\ chan' = [chan EXCEPT ![o] = riocm_put_channel([c EXCEPT !.state = "IDLE"])]
                       /\ thr' = [thr EXCEPT ![t] = [Return(t, r.rc, chan'[o]) EXCEPT
                                                        !.op = "connect", !.node = n, !.ch = o,
                                                        !.cas = TRUE, !.rc0 = r.rc]]
                  ELSE /\ chan' = [chan EXCEPT ![o] = c]
                       /\ thr' = [thr EXCEPT ![t] = [me EXCEPT !.pc = "conn_lock", !.cas = TRUE,
                                                                  !.rc0 = r.rc]]
    /\ last' = [op |-> "connect", node |-> n, id |-> id, thread |-> t, dest |-> rem_destid]
    /\ UNCHANGED <<idr, wq, hist>>

\* riocm_ch_connect takes the channel lock (lines 1066-1069): wait for the
\* response if the channel is still in CONNECT, else return what
\* riocm_post_send returned
ConnectLock(t) ==
    /\ thr[t].pc = "conn_lock"
    /\ LET o == thr[t].ch
           c == chan[o]
       IN IF c.state = "CONNECT"
          THEN /\ chan' = [chan EXCEPT ![o] = prepare_to_wait(c, t)]
               /\ thr' = [thr EXCEPT ![t].pc = "conn_wait", ![t].woken = FALSE]
          ELSE PutReturn(t, o, c, thr[t].rc0)
    /\ last' = [op |-> "conn_lock", node |-> thr[t].node, thread |-> t]
    /\ UNCHANGED <<idr, cm, inb, wq, hist>>

\* riocm_wait_for_connect_resp after schedule_timeout and the rest of
\* riocm_ch_connect (lines 950-968, 1071-1078)
ConnectWake(t, why) ==
    /\ thr[t].pc = "conn_wait"
    /\ why = "wake" => thr[t].woken
    /\ LET o == thr[t].ch
           c == finish_wait(chan[o], t)
       IN IF why = "signal"
          THEN PutReturn(t, o, c, "EINTR")
          ELSE IF c.state # "CONNECT"
          THEN PutReturn(t, o, c, IF c.state = "CONNECTED" THEN "OK" ELSE "EPERM")
          ELSE IF why = "timeout"
          THEN PutReturn(t, o, c, "ETIME")
          ELSE /\ chan' = [chan EXCEPT ![o] = prepare_to_wait(chan[o], t)]
               /\ thr' = [thr EXCEPT ![t].woken = FALSE]
    /\ last' = [op |-> "conn_wake", node |-> thr[t].node, thread |-> t, why |-> why]
    /\ UNCHANGED <<idr, cm, inb, wq, hist>>

(******************************** accept ***********************************)
\* riocm_ch_accept from the first queued request on, listening channel o
\* locked (lines 1206-1225): allocate the new channel and fill it in
AcceptTake(t, me, o, c) ==
    LET n == c.node
        req == Head(c.accept_queue)
        id == riocm_ch_alloc(n, RIOCM_CHNUM_AUTO)
        new == FreeObj
    IN IF new = NULL \/ id = 0
       THEN /\ chan' = [chan EXCEPT ![o] = riocm_put_channel(c)]
            /\ thr' = [thr EXCEPT ![t] = [me EXCEPT !.pc = "done", !.ret = "ENOMEM",
                                                    !.sst = c.state]]
            /\ UNCHANGED idr
       ELSE /\ idr' = [idr EXCEPT ![n][id] = new]
            /\ chan' = [chan EXCEPT
                          ![o] = riocm_put_channel([c EXCEPT !.accept_queue = Tail(@)]),
                          ![new] = [NewChan(n, id) EXCEPT !.cmdev = c.cmdev,
                                                          !.loc_destid = c.loc_destid,
                                                          !.rem_destid = req.destid,
                                                          !.rem_channel = req.chan]]
            /\ thr' = [thr EXCEPT ![t] = [me EXCEPT !.pc = "acc_peer", !.new = new,
                                                    !.woken = FALSE, !.sst = c.state]]

\* riocm_ch_accept(ch_id, timeout) up to the wait (lines 1181-1201); tmo is
\* "noblock" (0), "timed" or "forever"
AcceptStart(t, n, filp, id, tmo) ==
    /\ thr[t].pc = "idle"
    /\ LET o == idr_find(n, id)
           me == [IdleThr EXCEPT !.op = "accept", !.node = n, !.ch = o,
                                 !.timed = (tmo = "timed"), !.filp = filp]
       IN IF o = NULL
          THEN /\ thr' = [thr EXCEPT ![t] = [me EXCEPT !.pc = "done", !.ret = "EINVAL"]]
               /\ UNCHANGED <<idr, chan>>
          ELSE LET c == riocm_get_ref(chan[o])
               IN IF c.state # "LISTEN"
                  THEN /\ chan' = [chan EXCEPT ![o] = riocm_put_channel(c)]
                       /\ thr' = [thr EXCEPT ![t] = [me EXCEPT !.pc = "done", !.ret = "EINVAL"]]
                       /\ UNCHANGED idr
                  ELSE IF c.accept_queue = <<>>
                  THEN IF tmo = "noblock"
                       THEN /\ chan' = [chan EXCEPT ![o] = riocm_put_channel(c)]
                            /\ thr' = [thr EXCEPT ![t] = [me EXCEPT !.pc = "done",
                                                                       !.ret = "EAGAIN"]]
                            /\ UNCHANGED idr
                       ELSE /\ chan' = [chan EXCEPT ![o] = prepare_to_wait(c, t)]
                            /\ thr' = [thr EXCEPT ![t] = [me EXCEPT !.pc = "acc_wait"]]
                            /\ UNCHANGED idr
                  ELSE AcceptTake(t, me, o, c)
    /\ last' = [op |-> "accept", node |-> n, id |-> id, thread |-> t, tmo |-> tmo]
    /\ UNCHANGED <<cm, inb, wq, hist>>

\* riocm_wait_for_connect_req after schedule_timeout (lines 1108-1127) and
\* what follows it in riocm_ch_accept
AcceptWake(t, why) ==
    /\ thr[t].pc = "acc_wait"
    /\ why = "wake" => thr[t].woken
    /\ why = "timeout" => thr[t].timed
    /\ LET o == thr[t].ch
           c == finish_wait(chan[o], t)
       IN IF why = "signal"
          THEN PutReturn(t, o, c, "EINTR") /\ UNCHANGED idr
          ELSE IF c.accept_queue # <<>>
          THEN AcceptTake(t, thr[t], o, c)
          ELSE IF c.state # "LISTEN"
          THEN PutReturn(t, o, c, "ECANCELED") /\ UNCHANGED idr
          ELSE IF why = "timeout"
          THEN PutReturn(t, o, c, "ETIME") /\ UNCHANGED idr
          ELSE /\ chan' = [chan EXCEPT ![o] = prepare_to_wait(chan[o], t)]
               /\ thr' = [thr EXCEPT ![t].woken = FALSE]
               /\ UNCHANGED idr
    /\ last' = [op |-> "acc_wake", node |-> thr[t].node, thread |-> t, why |-> why]
    /\ UNCHANGED <<cm, inb, wq, hist>>

\* riocm_send_ack(ch): the CONN_ACK header and its submission
riocm_send_ack(c, allocOk, hwrc) ==
    riocm_post_send(cm[c.cmdev], c.rdev,
                    Hdr("CM_CONN_ACK", c.loc_destid, c.rem_destid, c.id, c.rem_channel, 0),
                    HdrLen, TRUE, allocOk, hwrc)

\* riocm_ch_accept from the peer lookup on (lines 1228-1255) and the end of
\* cm_chan_accept (line 1829): without a peer entry for the requester the new
\* channel's reference is dropped and ENODEV returned; else the channel
\* becomes CONNECTED, CONN_ACK is sent and the channel gets its owner
AcceptPeer(t, allocOk, hwrc) ==
    /\ thr[t].pc = "acc_peer"
    /\ LET new == thr[t].new
           c == chan[new]
           c1 == [c EXCEPT !.rdev = c.rem_destid, !.state = "CONNECTED"]
           r == riocm_send_ack(c1, allocOk, hwrc)
       IN IF ~IsPeer(c.cmdev, c.rem_destid)
          THEN /\ chan' = [chan EXCEPT ![new] = riocm_put_channel(c)]
               /\ thr' = [thr EXCEPT ![t].pc = "done", ![t].ret = "ENODEV"]
               /\ last' = [op |-> "acc_peer", node |-> thr[t].node, thread |-> t,
                           rc |-> "ENODEV"]
               /\ UNCHANGED <<cm, inb>>
          ELSE /\ chan' = [chan EXCEPT ![new] = [c1 EXCEPT !.filp = thr[t].filp]]
               /\ cm' = [cm EXCEPT ![c.cmdev] = r.cm]
               /\ inb' = Deliver(inb, r.out)
               /\ thr' = [thr EXCEPT ![t].pc = "done", ![t].ret = "OK"]
               /\ last' = [op |-> "acc_peer", node |-> thr[t].node, thread |-> t, rc |-> r.rc]
    /\ UNCHANGED <<idr, wq, hist>>

(************************** administrative sweeps **************************)
\* the channel objects of S in the order a sweep closes them: list_add puts
\* each swept channel at the head of the list, so the highest number is first
RECURSIVE SweepOrder(_)
SweepOrder(S) ==
    IF S = {} THEN <<>>
    ELSE LET o == CHOOSE x \in S : \A y \in S : chan[y].id <= chan[x].id
         IN <<o>> \o SweepOrder(S \ {o})

\* the registered channel objects of node n
Registered(n) == {idr[n][i] : i \in ChNums} \ {NULL}

\* faulty variant: the sweep leaves the channels in the IDR
idr_sweep_keep(n, S) == idr

\* the IDR of node n without the channels of S
idr_sweep(n, S) ==
    [idr EXCEPT ![n] = [i \in ChNums |-> IF idr[n][i] \in S THEN NULL ELSE idr[n][i]]]

\* thread t starts closing the swept channels S, or returns if there is none
StartSweep(t, op, n, S) ==
    [IdleThr EXCEPT !.op = op, !.node = n, !.objs = S, !.todo = SweepOrder(S),
                    !.pc = IF S = {} THEN "done" ELSE "ch_close",
                    !.ret = IF S = {} THEN "OK" ELSE "none"]

\* riocm_remove_dev(rdev) on node n up to the closes (lines 2041-2093); shut:
\* the device is in state RIO_DEVICE_SHUTDOWN
RemoveDev(t, n, rdev, shut) ==
    /\ thr[t].pc = "idle"
    /\ cm[n].up
    /\ IsPeer(n, rdev)
    /\ LET S == {o \in Registered(n) : chan[o].rdev = rdev}
       IN /\ cm' = [cm EXCEPT ![n].peers = SelectSeq(@, LAMBDA p : p # rdev)]
          /\ idr' = idr_sweep(n, S)
          /\ chan' = [o \in Objs |-> IF o \in S /\ ~shut
                                    THEN [chan[o] EXCEPT !.state = "DISCONNECT"]
                                    ELSE chan[o]]
          /\ thr' = [thr EXCEPT ![t] = [StartSweep(t, "remove_dev", n, S) EXCEPT
                                           !.rdev = rdev]]
          /\ last' = [op |-> "remove_dev", node |-> n, rdev |-> rdev, shut |-> shut,
                      swept |-> S]
    /\ UNCHANGED <<inb, wq, hist>>

\* riocm_cdev_release(filp) on node n up to the closes (lines 1600-1610)
CdevRelease(t, n, filp) ==
    /\ thr[t].pc = "idle"
    /\ LET S == {o \in Registered(n) : chan[o].filp = filp}
       IN /\ idr' = idr_sweep(n, S)
          /\ thr' = [thr EXCEPT ![t] = StartSweep(t, "release", n, S)]
          /\ last' = [op |-> "release", node |-> n, filp |-> filp, swept |-> S]
    /\ UNCHANGED <<chan, cm, inb, wq, hist>>

\* riocm_remove_mport(mport) on node n: the cm_dev leaves cm_dev_list (lines
\* 2229-2239)
MportDown(t, n) ==
    /\ thr[t].pc = "idle"
    /\ cm[n].up
    /\ cm' = [cm EXCEPT ![n].up = FALSE]
    /\ thr' = [thr EXCEPT ![t] = [IdleThr EXCEPT !.op = "remove_mport", !.node = n,
                                                 !.pc = "mp_sweep"]]
    /\ last' = [op |-> "remove_mport", node |-> n]
    /\ UNCHANGED <<idr, chan, inb, wq, hist>>

\* riocm_remove_mport after flush_workqueue: sweep the channels bound to the
\* mport (lines 2243-2254)
MportSweep(t) ==
    /\ thr[t].pc = "mp_sweep"
    /\ LET n == thr[t].node
           S == {o \in Registered(n) : chan[o].cmdev = n}
       IN /\ wq[n] = <<>>
          /\ thr[WorkerOf(n)].pc = "idle"
          /\ idr' = idr_sweep(n, S)
          /\ thr' = [thr EXCEPT ![t] = [StartSweep(t, "remove_mport", n, S) EXCEPT
                                           !.pc = IF S = {} THEN "mp_free" ELSE "ch_close"]]
          /\ last' = [op |-> "mp_sweep", node |-> n, swept |-> S]
    /\ UNCHANGED <<chan, cm, inb, wq, hist>>

\* riocm_remove_mport after the closes (lines 2263-2276): the mailboxes are
\* released, the peer entries and the cm_dev freed
MportFree(t) ==
    /\ thr[t].pc = "mp_free"
    /\ cm' = [cm EXCEPT ![thr[t].node] = EmptyCm]
    /\ inb' = [inb EXCEPT ![thr[t].node] = <<>>]
    /\ thr' = [thr EXCEPT ![t].pc = "done", ![t].ret = "OK"]
    /\ last' = [op |-> "mp_free", node |-> thr[t].node]
    /\ UNCHANGED <<idr, chan, wq, hist>>

\* riocm_remove_mport after the closes, the other outcome of kfree(cm) (line
\* 2277): the freed memory still holds what the cm_dev held
MportFreeStale(t) ==
    /\ thr[t].pc = "mp_free"
    /\ inb' = [inb EXCEPT ![thr[t].node] = <<>>]
    /\ thr' = [thr EXCEPT ![t].pc = "done", ![t].ret = "OK"]
    /\ last' = [op |-> "mp_free", node |-> thr[t].node]
    /\ UNCHANGED <<idr, chan, cm, wq, hist>>

(************************ scenario building blocks *************************)
\* a channel that accept has created, brought to CONNECTED and handed to filp
ConnectedChan(n, id, filp, rdev, rem_ch) ==
    [NewChan(n, id) EXCEPT !.filp = filp, !.cmdev = n, !.rdev = rdev,
                           !.state = "CONNECTED", !.loc_destid = n,
                           !.rem_destid = rdev, !.rem_channel = rem_ch]

\* what rio_add_outb_message may return: success or a transport error
HwRcs == {"OK", "EIO"}
\* completion slots the transport may report: every ring slot and one beyond
CqSlots == 0 .. RIOCM_TX_RING_SIZE

(***************************************************************************)
(* SpecTx: the TX engine of node 1.  Two connected channels send data and  *)
(* are closed (the close sends CONN_CLOSE as a control message) while the  *)
(* transport reports completions for arbitrary slots.  Node 2 is not up,   *)
(* so accepted packets leave the model.                                    *)
(***************************************************************************)
TxChans == {1, 2}

InitTx ==
    /\ idr = [n \in Nodes |-> [i \in ChNums |-> IF n = 1 /\ i \in TxChans THEN i ELSE NULL]]
    /\ chan = [o \in Objs |-> IF o \in TxChans THEN ConnectedChan(1, o, "f1", 2, o)
                              ELSE NoChan]
    /\ cm = [n \in Nodes |-> IF n = 1 THEN [NewCm(1) EXCEPT !.peers = <<2>>] ELSE EmptyCm]
    /\ inb = [n \in Nodes |-> <<>>]
    /\ wq = [n \in Nodes |-> <<>>]
    /\ thr = [e \in Execs |-> IdleThr]
    /\ last = [op |-> "init"]
    /\ hist = {}

NextTx ==
    \/ \E id \in TxChans, hwrc \in HwRcs : ChanSend(1, id, 1, hwrc)
    \/ \E t \in {"t1", "t2"}, id \in TxChans : ChanClose(t, 1, "f1", id)
    \/ \E t \in {"t1", "t2"}, allocOk \in BOOLEAN, hwrc \in HwRcs : ChClose1(t, TRUE, allocOk, hwrc)
    \/ \E t \in {"t1", "t2"}, how \in {"done", "timeout"} : ChCloseWait(t, how)
    \/ \E slot \in CqSlots, hwok \in [1 .. Len(cm[1].tx_reqs) -> BOOLEAN] :
           TxCompletion(1, slot, hwok)

SpecTx == InitTx /\ [][NextTx]_vars

\* the ring slots from tx_ack_slot up to (not including) tx_slot
TxPending(c) == {(c.tx_ack_slot + i) % RIOCM_TX_RING_SIZE : i \in 0 .. (c.tx_cnt - 1)}

\* C6: in every port context 0 <= tx_cnt <= capacity, (head - ack) mod capacity
\* = count mod capacity, and the slots in [ack, head) are exactly the non-NULL
\* entries of tx_buf
C6_TxRingInvariant ==
    \A n \in Nodes :
        LET c == cm[n]
        IN /\ c.tx_cnt >= 0 /\ c.tx_cnt <= RIOCM_TX_RING_SIZE
           /\ (c.tx_slot - c.tx_ack_slot) % RIOCM_TX_RING_SIZE = c.tx_cnt % RIOCM_TX_RING_SIZE
           /\ \A i \in TxSlots : (c.tx_buf[i] # NULLBUF) <=> (i \in TxPending(c))


C6_Witness ==
    /\ last.op = "txcq" /\ last.slot = RIOCM_TX_RING_SIZE /\ last.handed >= 1
    /\ cm[1].tx_cnt > 0 /\ cm[1].tx_ack_slot # 0

\* the ring part of a port context
TxRing(c) == <<c.tx_buf, c.tx_slot, c.tx_cnt, c.tx_ack_slot>>

\* what a submit that finds fewer than capacity entries does: nothing is
\* deferred and the ring takes the buffer
NotFullSubmit(c, d) ==
    /\ d.tx_reqs = c.tx_reqs
    /\ d.tx_cnt = c.tx_cnt + 1

\* the deferred list d.tx_reqs is c.tx_reqs with one CONN_CLOSE of channel
\* object o appended at its tail
DeferredOne(c, d, o) ==
    /\ Len(d.tx_reqs) = Len(c.tx_reqs) + 1
    /\ SubSeq(d.tx_reqs, 1, Len(c.tx_reqs)) = c.tx_reqs
    /\ d.tx_reqs[Len(d.tx_reqs)].buffer.ch_op = "CM_CONN_CLOSE"
    /\ d.tx_reqs[Len(d.tx_reqs)].buffer.src_ch = chan[o].id

\* C7 as stated: a submit that finds tx_cnt = capacity returns EBUSY and leaves
\* the ring alone; with the control flag it appends exactly one request to the
\* tail of the deferred list, without it the list is unchanged.  A submit that
\* finds fewer than capacity entries is not deferred.
C7_AsStated ==
    [][(last'.op \in {"send", "ch_close"} /\ last'.sub) =>
          LET c == cm[last'.node]
              d == cm'[last'.node]
          IN IF c.tx_cnt = RIOCM_TX_RING_SIZE
             THEN /\ last'.rc = "EBUSY"
                  /\ TxRing(d) = TxRing(c)
                  /\ IF last'.req THEN DeferredOne(c, d, last'.ch)
                                  ELSE d.tx_reqs = c.tx_reqs
             ELSE NotFullSubmit(c, d)]_vars

\* C7, amended: as above, except that a control submit at a full ring whose
\* request descriptor cannot be allocated returns ENOMEM and queues nothing
C7_FullRingSubmit ==
    [][(last'.op \in {"send", "ch_close"} /\ last'.sub) =>
          LET c == cm[last'.node]
              d == cm'[last'.node]
          IN IF c.tx_cnt = RIOCM_TX_RING_SIZE
             THEN /\ TxRing(d) = TxRing(c)
                  /\ IF last'.req
                     THEN IF last'.alloc
                          THEN last'.rc = "EBUSY" /\ DeferredOne(c, d, last'.ch)
                          ELSE last'.rc = "ENOMEM" /\ d.tx_reqs = c.tx_reqs
                     ELSE last'.rc = "EBUSY" /\ d.tx_reqs = c.tx_reqs
             ELSE NotFullSubmit(c, d)]_vars

C7_Witness ==
    /\ last.op = "ch_close" /\ last.full /\ last.rc = "EBUSY"
    /\ Len(cm[1].tx_reqs) = 2

\* the CONN_CLOSE of channel id waits on the deferred list of node n
Deferred(n, id) ==
    \E i \in 1 .. Len(cm[n].tx_reqs) : cm[n].tx_reqs[i].buffer.src_ch = id

\* a completion that finds deferred requests hands at least the first of them
\* to the transport, in list order, into the ring slots from tx_slot on; at a
\* full ring it has acknowledged at least one slot before
C8_Step ==
    (last'.op = "txcq" /\ cm[last'.node].tx_reqs # <<>>) =>
        LET c == cm[last'.node]
            d == cm'[last'.node]
            h == last'.handed
        IN /\ h >= 1
           /\ d.tx_reqs = SubSeq(c.tx_reqs, h + 1, Len(c.tx_reqs))
           /\ \A k \in 1 .. h :
                 d.tx_buf[(c.tx_slot + k - 1) % RIOCM_TX_RING_SIZE] = c.tx_reqs[k].buffer
           /\ c.tx_cnt = RIOCM_TX_RING_SIZE => c.tx_cnt + h - d.tx_cnt >= 1

(***************************************************************************)
(* SpecTxFair: TX backpressure on close.  Channel 3 parks data messages in *)
(* the ring, channels 1 and 2 are closed by one thread each, the transport *)
(* keeps signalling completions and a closer runs once its completion has  *)
(* fired.                                                                  *)
(***************************************************************************)
InitDrain ==
    /\ idr = [n \in Nodes |-> [i \in ChNums |-> IF n = 1 /\ i <= 3 THEN i ELSE NULL]]
    /\ chan = [o \in Objs |-> IF o <= 3 THEN ConnectedChan(1, o, "f1", 2, o) ELSE NoChan]
    /\ cm = [n \in Nodes |-> IF n = 1 THEN [NewCm(1) EXCEPT !.peers = <<2>>] ELSE EmptyCm]
    /\ inb = [n \in Nodes |-> <<>>]
    /\ wq = [n \in Nodes |-> <<>>]
    /\ thr = [e \in Execs |-> IdleThr]
    /\ last = [op |-> "init"]
    /\ hist = {}

\* the channel thread t closes
Closes(t) == IF t = "t1" THEN 1 ELSE 2

NextDrain ==
    \/ ChanSend(1, 3, 1, "OK")
    \/ \E t \in {"t1", "t2"} : ChanClose(t, 1, "f1", Closes(t))
    \/ \E t \in {"t1", "t2"}, allocOk \in BOOLEAN : ChClose1(t, TRUE, allocOk, "OK")
    \/ \E t \in {"t1", "t2"}, how \in {"done", "timeout"} : ChCloseWait(t, how)
    \/ \E slot \in CqSlots, hwok \in [1 .. Len(cm[1].tx_reqs) -> BOOLEAN] :
           TxCompletion(1, slot, hwok)

SpecTxFair ==
    /\ InitDrain /\ [][NextDrain]_vars
    /\ WF_vars(\E slot \in CqSlots, hwok \in [1 .. Len(cm[1].tx_reqs) -> BOOLEAN] :
                   TxCompletion(1, slot, hwok))
    /\ \A t \in {"t1", "t2"} : WF_vars(ChCloseWait(t, "done"))

\* the close call of thread t has returned and its channel has been freed
Destroyed(t) ==
    thr[t].pc = "done" /\ thr[t].ch # NULL /\ chan[thr[t].ch].mem = "freed"

\* C8: every deferred control message is eventually handed to the transport;
\* one completion, for any slot, at a full ring frees a slot and submits the
\* CONN_CLOSE at the head of the deferred list; and the close that queued it
\* completes destruction of its channel
C8_DeferredDrain ==
    /\ [][C8_Step]_vars
    /\ \A id \in TxChans : Deferred(1, id) ~> ~Deferred(1, id)
    /\ \A t \in {"t1", "t2"} :
          (thr[t].pc = "ch_wait" /\ last.op = "ch_close" /\ last.rc = "EBUSY")
              ~> Destroyed(t)

C8_Witness ==
    /\ last.op = "txcq" /\ last.cnt = RIOCM_TX_RING_SIZE /\ Len(last.reqs) = 2
    /\ last.handed = 2
    /\ \E t \in {"t1", "t2"} : Destroyed(t)


(***************************************************************************)
(* SpecRx: the RX ring of one connected channel of node 1.  Data messages  *)
(* arrive for it (and for a channel number nobody owns), threads receive   *)
(* with and without a timeout and may be interrupted by a signal.          *)
(***************************************************************************)
InitRx ==
    /\ idr = [n \in Nodes |-> [i \in ChNums |-> IF n = 1 /\ i = 1 THEN 1 ELSE NULL]]
    /\ chan = [o \in Objs |-> IF o = 1 THEN ConnectedChan(1, 1, "f1", 2, 1) ELSE NoChan]
    /\ cm = [n \in Nodes |-> IF n = 1 THEN [NewCm(1) EXCEPT !.peers = <<2>>] ELSE EmptyCm]
    /\ inb = [n \in Nodes |-> <<>>]
    /\ wq = [n \in Nodes |-> <<>>]
    /\ thr = [e \in Execs |-> IdleThr]
    /\ last = [op |-> "init"]
    /\ hist = {}

WakeWhys == {"wake", "timeout", "signal"}

NextRx ==
    \/ \E id \in {1, 2}, pl \in 1 .. MaxData :
           Inject(1, Hdr("CM_DATA_MSG", 2, 1, 1, id, pl))
    \/ RxMsg(1, TRUE)
    \/ \E t \in {"t1", "t2"}, timed \in BOOLEAN : RcvStart(t, 1, 1, timed)
    \/ \E t \in {"t1", "t2"} : RcvLock(t)
    \/ \E t \in {"t1", "t2"}, why \in WakeWhys : RcvWake(t, why)
    \/ \E t \in {"t1", "t2"} : RcvFree(t)
    \/ \E t \in {"t1", "t2"} : Retire(t)

SpecRx == InitRx /\ [][NextRx]_vars

\* number of entries of the table f that hold a buffer
Held(f) == Cardinality({i \in RxSlots : f[i] # NULLBUF})

\* C5 as stated: for every channel rx_ring.count + rx_ring.inuse_cnt <= capacity
C5_AsStated ==
    \A o \in Objs :
        chan[o].mem = "live" =>
            chan[o].rx_ring.count + chan[o].rx_ring.inuse_cnt <= RIOCM_RX_RING_SIZE

\* C5, amended: count and inuse_cnt are each within 0 .. capacity, and each
\* is the number of buffers its table holds
C5_RxRingBounds ==
    \A o \in Objs :
        chan[o].mem = "live" =>
            LET r == chan[o].rx_ring
            IN /\ r.count >= 0 /\ r.count <= RIOCM_RX_RING_SIZE
               /\ r.inuse_cnt >= 0 /\ r.inuse_cnt <= RIOCM_RX_RING_SIZE
               /\ r.count = Held(r.buf)
               /\ r.inuse_cnt = Held(r.inuse)

C5_Witness ==
    /\ last.op = "rx" /\ last.rc = "OK"
    /\ chan[1].rx_ring.count = RIOCM_RX_RING_SIZE
    /\ chan[1].rx_ring.inuse_cnt >= 1


(***************************************************************************)
(* SpecHs: one handshake.  Node 2 listens on channel LId (object LObj),    *)
(* node 1 owns the idle channel AId (object AObj).  Thread t1 connects     *)
(* AId to LId, thread t2 accepts on LId; the transport delivers, reports   *)
(* completions and may reject a submission.                                *)
(***************************************************************************)
LId == 1
AId == RIOCM_MAX_CHNUM
LObj == 1
AObj == 2

\* a channel that bind and listen have brought to LISTEN
ListenChan(n, id, filp) ==
    [NewChan(n, id) EXCEPT !.filp = filp, !.cmdev = n, !.loc_destid = n, !.state = "LISTEN"]

InitHs ==
    /\ idr = [n \in Nodes |-> [i \in ChNums |->
                 IF n = 2 /\ i = LId THEN LObj ELSE IF n = 1 /\ i = AId THEN AObj ELSE NULL]]
    /\ chan = [o \in Objs |->
                 IF o = LObj THEN ListenChan(2, LId, "f2")
                 ELSE IF o = AObj THEN [NewChan(1, AId) EXCEPT !.filp = "f1"]
                 ELSE NoChan]
    /\ cm = [n \in Nodes |-> [NewCm(n) EXCEPT !.peers = <<3 - n>>]]
    /\ inb = [n \in Nodes |-> <<>>]
    /\ wq = [n \in Nodes |-> <<>>]
    /\ thr = [e \in Execs |-> IdleThr]
    /\ last = [op |-> "init"]
    /\ hist = {}

\* the steps of a handshake and of the machinery under it
HsSteps ==
    \/ \E hwrc \in HwRcs : ConnectStart("t1", 1, AId, 2, LId, TRUE, hwrc)
    \/ ConnectLock("t1")
    \/ \E why \in WakeWhys : ConnectWake("t1", why)
    \/ \E tmo \in {"timed", "forever"} : AcceptStart("t2", 2, "f2", LId, tmo)
    \/ \E why \in WakeWhys : AcceptWake("t2", why)
    \/ \E hwrc \in HwRcs : AcceptPeer("t2", TRUE, hwrc)
    \/ \E n \in Nodes : RxMsg(n, TRUE)
    \/ \E n \in Nodes : CmHandler(n, TRUE)
    \/ RespExch(1)
    \/ RespSet(1)
    \/ \E n \in Nodes, slot \in CqSlots :
           \E hwok \in [1 .. Len(cm[n].tx_reqs) -> BOOLEAN] : TxCompletion(n, slot, hwok)

SpecHs == InitHs /\ [][HsSteps]_vars

\* thread t's accept has returned a new channel
AcceptOk(t) ==
    thr[t].op = "accept" /\ thr[t].pc = "done" /\ thr[t].ret = "OK"

\* node n's control worker has finished with a CONN_ACK handed to it
AckProcessed(n) ==
    \E h \in hist :
        /\ h.node = n
        /\ \A i \in 1 .. Len(wq[n]) : wq[n][i] # h.hdr
        /\ thr[WorkerOf(n)].pc = "idle"

\* C3: after a complete handshake accept has returned a new channel N other
\* than the listening channel l; N is CONNECTED with rem_channel = a's number
\* and rem_destid = A's destid; l is still in LISTEN; a is CONNECTED with
\* rem_channel = N's number
C3_Handshake ==
    (AcceptOk("t2") /\ AckProcessed(1)) =>
        LET N == chan[thr["t2"].new]
            l == chan[LObj]
            a == chan[AObj]
        IN /\ thr["t2"].new # LObj /\ N.id # l.id
           /\ idr[2][N.id] = thr["t2"].new
           /\ N.state = "CONNECTED"
           /\ N.rem_channel = a.id /\ N.rem_destid = a.loc_destid /\ a.loc_destid = 1
           /\ l.state = "LISTEN" /\ idr[2][l.id] = LObj
           /\ a.state = "CONNECTED"
           /\ a.rem_channel = N.id

C3_Witness ==
    /\ AcceptOk("t2") /\ AckProcessed(1)
    /\ thr["t1"].pc = "done" /\ thr["t1"].ret = "OK"
    /\ chan[AObj].rem_channel = chan[thr["t2"].new].id


(***************************************************************************)
(* SpecConn: the handshake of SpecHs with a third thread closing the       *)
(* connecting channel at any moment; the CONN_CLOSE this may send is       *)
(* handled by node 2's control worker.                                     *)
(***************************************************************************)
Closers == {"t3", "w2"}

NextConn ==
    \/ HsSteps
    \/ ChanClose("t3", 1, "f1", AId)
    \/ \E e \in Closers, allocOk \in BOOLEAN, hwrc \in HwRcs : ChClose1(e, TRUE, allocOk, hwrc)
    \/ \E e \in Closers, how \in {"done", "timeout"} : ChCloseWait(e, how)
    \/ CloseExch(2)

SpecConn == InitHs /\ [][NextConn]_vars

\* thread t's connect has returned ret after moving its channel to CONNECT
ConnectReturned(t) ==
    thr[t].op = "connect" /\ thr[t].pc = "done" /\ thr[t].cas

\* C1: when connect returns an error after its Idle -> Connect transition
\* the channel is in IDLE or DESTROYING, and on a timeout it is in IDLE
C1_ConnectErrorState ==
    \A t \in Threads :
        (ConnectReturned(t) /\ thr[t].ret # "OK") =>
            /\ thr[t].sst \in {"IDLE", "DESTROYING"}
            /\ thr[t].ret = "ETIME" => thr[t].sst = "IDLE"

\* C2: connect returns success only if the channel is CONNECTED and its
\* rem_channel is the src_ch of a CONN_ACK addressed to this channel
C2_ConnectOk ==
    \A t \in Threads :
        (ConnectReturned(t) /\ thr[t].ret = "OK") =>
            /\ thr[t].sst = "CONNECTED"
            /\ \E h \in hist : /\ h.node = thr[t].node
                               /\ h.hdr.dst_ch = chan[thr[t].ch].id
                               /\ h.hdr.src_ch = thr[t].srem


(***************************************************************************)
(* SpecAdm: every way a channel of node 1 is torn down.  Channel 1 is      *)
(* connected to peer 2 and owned by f1, channel 2 is connected to peer 3   *)
(* and owned by f2; one more channel can be created.  Two threads close    *)
(* channels, release owners, remove peers and remove the port, and the     *)
(* remote side sends CONN_CLOSE, one at a time, to a channel that exists   *)
(* or to one that may not.  Peers 2 and 3 are outside the model, so        *)
(* packets to them leave it.                                               *)
(***************************************************************************)
Peers == {2, 3}
AdmThreads == {"t1", "t2"}
AdmClosers == AdmThreads \cup {"w1"}

InitAdm ==
    /\ idr = [n \in Nodes |-> [i \in ChNums |-> IF n = 1 /\ i \in {1, 2} THEN i ELSE NULL]]
    /\ chan = [o \in Objs |-> IF o = 1 THEN ConnectedChan(1, 1, "f1", 2, 1)
                              ELSE IF o = 2 THEN ConnectedChan(1, 2, "f2", 3, 1)
                              ELSE NoChan]
    /\ cm = [n \in Nodes |-> IF n = 1 THEN [NewCm(1) EXCEPT !.peers = <<2, 3>>] ELSE EmptyCm]
    /\ inb = [n \in Nodes |-> <<>>]
    /\ wq = [n \in Nodes |-> <<>>]
    /\ thr = [e \in Execs |-> IdleThr]
    /\ last = [op |-> "init"]
    /\ hist = {}

NextAdm ==
    \/ \E t \in AdmThreads, filp \in Filps, id \in {1, 2} : ChanClose(t, 1, filp, id)
    \/ \E t \in AdmThreads, filp \in Filps : CdevRelease(t, 1, filp)
    \/ \E t \in AdmThreads, rdev \in Peers, shut \in BOOLEAN : RemoveDev(t, 1, rdev, shut)
    \/ \E t \in AdmThreads : MportDown(t, 1)
    \/ \E t \in AdmThreads : MportSweep(t)
    \/ \E t \in AdmThreads : (\A e \in Execs : thr[e].pc # "ch_close") /\ MportFree(t)
    \/ \E e \in AdmClosers : ChClose1(e, TRUE, TRUE, "OK")
    \/ \E e \in AdmClosers, how \in {"done", "timeout"} : ChCloseWait(e, how)
    \/ \E id \in {1, RIOCM_MAX_CHNUM} :
           /\ inb[1] = <<>> /\ wq[1] = <<>>
           /\ Inject(1, Hdr("CM_CONN_CLOSE", 2, 1, 1, id, 0))
    \/ RxMsg(1, TRUE)
    \/ CmHandler(1, TRUE)
    \/ CloseExch(1)
    \/ ChanCreate(1, "f1", RIOCM_CHNUM_AUTO, TRUE)

SpecAdm == InitAdm /\ [][NextAdm]_vars

\* C4: in every reachable state no channel present in the registry is in
\* state DESTROYING
C4_NoRegisteredDestroying ==
    \A n \in Nodes, i \in ChNums :
        idr[n][i] # NULL => chan[idr[n][i]].state # "DESTROYING"

\* executor e has closed every channel of its list
ClosedAll(e) ==
    /\ thr[e].objs # {}
    /\ \A o \in thr[e].objs : chan[o].state = "DESTROYING" /\ o \notin Registered(thr[e].node)

C4_Witness ==
    /\ thr["t1"].op = "remove_dev" /\ thr["t1"].pc = "done" /\ ClosedAll("t1")
    /\ thr["t2"].op = "close" /\ thr["t2"].pc = "done" /\ ClosedAll("t2")
    /\ last.op = "create" /\ last.rc = "OK"


(***************************************************************************)
(* SpecPeer: peer removal on node 1, from the state of SpecAdm.  Threads   *)
(* remove peers and close channel 1 while data is sent on every channel    *)
(* number, a channel is created and the transport reports the completion   *)
(* of everything submitted so far.                                         *)
(***************************************************************************)
NextPeer ==
    \/ \E t \in AdmThreads, rdev \in Peers, shut \in BOOLEAN : RemoveDev(t, 1, rdev, shut)
    \/ ChanClose("t2", 1, "f1", 1)
    \/ \E t \in AdmThreads : ChClose1(t, TRUE, TRUE, "OK")
    \/ \E t \in AdmThreads, how \in {"done", "timeout"} : ChCloseWait(t, how)
    \/ \E id \in ChNums : ChanSend(1, id, 1, "OK")
    \/ ChanCreate(1, "f1", RIOCM_CHNUM_AUTO, TRUE)
    \/ TxCompletion(1, cm[1].tx_slot, [i \in 1 .. Len(cm[1].tx_reqs) |-> TRUE])

SpecPeer == InitAdm /\ [][NextPeer]_vars

\* the step in which thread t enters riocm_remove_dev and sweeps the registry
SweepStep(t) ==
    thr[t].pc = "idle" /\ thr'[t].op = "remove_dev"

\* the channels of node n registered with peer handle P
OfPeer(n, P) == {o \in Registered(n) : chan[o].rdev = P}

\* one step of a peer removal: the sweep takes exactly the channels of the
\* peer out of the registry and moves them to DISCONNECT unless the device is
\* shut down; the sweep and the closes leave every other channel and
\* registry entry as they were
C10_Step ==
    \A t \in AdmThreads :
        /\ SweepStep(t) =>
             LET S == OfPeer(1, thr'[t].rdev)
             IN /\ thr'[t].objs = S
                /\ \A o \in S : /\ o \notin {idr'[1][i] : i \in ChNums}
                                /\ chan'[o].state = IF last'.shut THEN chan[o].state
                                                    ELSE "DISCONNECT"
                /\ \A o \in Objs \ S : chan'[o] = chan[o]
                /\ \A i \in ChNums : idr[1][i] \notin S => idr'[1][i] = idr[1][i]
        /\ (thr[t].op = "remove_dev" /\ thr[t].pc \in {"ch_close", "ch_wait"}
              /\ thr'[t] # thr[t]) =>
             /\ idr' = idr
             /\ \A o \in Objs \ thr[t].objs : chan'[o] = chan[o]

\* thread t's riocm_remove_dev has returned
RemoveReturned(t) ==
    thr[t].op = "remove_dev" /\ thr[t].pc = "done"

\* after the return every swept channel has gone through the close procedure
\* and is out of the registry, no registered channel has the peer's handle,
\* and a send on the number of a swept channel returns ENODEV or EAGAIN
C10_Returned ==
    \A t \in AdmThreads :
        RemoveReturned(t) =>
            /\ \A o \in thr[t].objs : /\ chan[o].state = "DESTROYING"
                                      /\ o \notin Registered(1)
            /\ OfPeer(1, thr[t].rdev) = {}
            /\ (last.op = "send" /\ \E o \in thr[t].objs : chan[o].id = last.id) =>
                   last.rc \in {"ENODEV", "EAGAIN"}

Receivers == {"t1", "t2"}

NextClose ==
    \/ \E id \in {1, 2} :
           /\ inb[1] = <<>> /\ wq[1] = <<>>
           /\ Inject(1, Hdr("CM_CONN_CLOSE", 2, 1, 1, id, 0))
    \/ RxMsg(1, TRUE)
    \/ CmHandler(1, TRUE)
    \/ CloseExch(1)
    \/ ChClose1("w1", TRUE, TRUE, "OK")
    \/ \E how \in {"done", "timeout"} : ChCloseWait("w1", how)
    \/ \E t \in Receivers, timed \in BOOLEAN : RcvStart(t, 1, 1, timed)
    \/ \E t \in Receivers : RcvLock(t)
    \/ \E t \in Receivers, why \in WakeWhys : RcvWake(t, why)

SpecClose ==
    /\ InitRx
    /\ [][NextClose]_vars
    /\ WF_vars(RxMsg(1, TRUE))
    /\ WF_vars(CmHandler(1, TRUE))
    /\ WF_vars(CloseExch(1))
    /\ WF_vars(ChClose1("w1", TRUE, TRUE, "OK"))
    /\ \A t \in Receivers : WF_vars(RcvWake(t, "wake"))

\* thread t is blocked in receive on channel object o, whose RX ring is empty
BlockedOn(t, o) ==
    thr[t].pc = "rcv_wait" /\ thr[t].ch = o /\ chan[o].rx_ring.count = 0

\* the steps of the control worker on a CONN_CLOSE: for a registered,
\* connected channel the registry entry goes, then the state becomes
\* DISCONNECT, then the close procedure makes it DESTROYING and wakes every
\* waiter; for an unregistered number nothing but the work queue changes
C9_Work ==
    /\ (wq[1] # <<>> /\ wq'[1] = Tail(wq[1]) /\ thr["w1"].pc = "idle"
          /\ Head(wq[1]).ch_op = "CM_CONN_CLOSE") =>
         LET id == Head(wq[1]).dst_ch
             o == idr[1][id]
         IN IF o = NULL
            THEN idr' = idr /\ chan' = chan /\ thr' = thr /\ cm' = cm
            ELSE /\ idr'[1][id] = NULL
                 /\ thr'["w1"].pc = "close_exch" /\ thr'["w1"].ch = o
    /\ (thr["w1"].pc = "close_exch" /\ thr'["w1"].pc # "close_exch") =>
         /\ chan'[thr["w1"].ch].state = "DISCONNECT"
         /\ thr'["w1"].pc = "ch_close"
    /\ (thr["w1"].pc = "ch_close" /\ thr'["w1"].pc # "ch_close") =>
         LET o == thr["w1"].ch
         IN /\ chan'[o].state = "DESTROYING"
            /\ o \notin {idr'[1][i] : i \in ChNums}
            /\ \A t \in Receivers : BlockedOn(t, o) => thr'[t].woken

\* a receiver that wakes on a channel that has left CONNECTED with an empty
\* ring returns one of rets
WakeReturns(rets) ==
    \A t \in Receivers :
        (thr[t].pc = "rcv_wait" /\ last'.op = "rcv_wake" /\ last'.thread = t
           /\ chan[thr[t].ch].state # "CONNECTED" /\ chan[thr[t].ch].rx_ring.count = 0) =>
            thr'[t].pc = "done" /\ thr'[t].ret \in rets

\* a receiver that is blocked when the channel goes to DISCONNECT, or that
\* the close procedure has woken, returns one of rets
BlockedReturns(rets) ==
    \A t \in Receivers :
        (BlockedOn(t, 1) /\ (chan[1].state = "DISCONNECT" \/
                               (chan[1].state = "DESTROYING" /\ thr[t].woken)))
            ~> (thr[t].pc = "done" /\ thr[t].ret \in rets)

\* C9 as stated: every blocked receiver returns ECONNRESET
C9_AsStated ==
    /\ [][C9_Work /\ WakeReturns({"ECONNRESET"})]_vars
    /\ BlockedReturns({"ECONNRESET"})

\* C9: when a CONN_CLOSE addressed to a CONNECTED channel is processed the
\* channel leaves the registry and goes to DISCONNECT and through the close
\* procedure, and every thread blocked in receive on it with an empty RX ring
\* returns ECONNRESET, or EINTR if a signal is pending when it wakes; a
\* CONN_CLOSE for a number that is not registered changes no channel,
\* registry or ring state
C9_CloseReceived ==
    /\ [][C9_Work /\ WakeReturns({"ECONNRESET", "EINTR"})]_vars
    /\ BlockedReturns({"ECONNRESET", "EINTR"})

C9_Witness ==
    /\ \A t \in Receivers : /\ thr[t].pc = "done" /\ thr[t].op = "receive"
                            /\ thr[t].ret = "ECONNRESET"
    /\ chan[1].state = "DESTROYING" /\ idr[1][1] = NULL
    /\ last.op = "work" /\ last.rc = "ENODEV"


(***************************************************************************)
(* SpecAlloc: channel numbers.  Node 1 starts with any set of at most two  *)
(* idle channels registered; channels are created with every requested     *)
(* number, with and without memory for the object, and closed again, so    *)
(* numbers are freed and taken anew.                                       *)
(***************************************************************************)
\* the k-th lowest number of S gets object k
RankIn(S, i) == IF S = {} THEN 0 ELSE Cardinality({j \in S : j <= i})

InitAlloc ==
    \E S \in SUBSET ChNums :
        /\ Cardinality(S) < MaxObj
        /\ idr = [n \in Nodes |-> [i \in ChNums |->
                     IF n = 1 /\ i \in S THEN RankIn(S, i) ELSE NULL]]
        /\ chan = [o \in Objs |->
                     IF \E i \in S : RankIn(S, i) = o
                     THEN [NewChan(1, CHOOSE i \in S : RankIn(S, i) = o) EXCEPT !.filp = "f1"]
                     ELSE NoChan]
        /\ cm = [n \in Nodes |-> IF n = 1 THEN NewCm(1) ELSE EmptyCm]
        /\ inb = [n \in Nodes |-> <<>>]
        /\ wq = [n \in Nodes |-> <<>>]
        /\ thr = [e \in Execs |-> IdleThr]
        /\ last = [op |-> "init"]
        /\ hist = {}

NextAlloc ==
    \/ \E r \in ChNums \cup {RIOCM_CHNUM_AUTO}, allocOk \in BOOLEAN :
           ChanCreate(1, "f1", r, allocOk)
    \/ \E t \in {"t1", "t2"}, id \in ChNums : ChanClose(t, 1, "f1", id)
    \/ \E t \in {"t1", "t2"} : ChClose1(t, TRUE, TRUE, "OK")
    \/ \E t \in {"t1", "t2"} : ChCloseWait(t, "done")
    \/ \E t \in {"t1", "t2"} : Retire(t)

SpecAlloc == InitAlloc /\ [][NextAlloc]_vars

\* the reference definition: the number allocate(r) registers in table tab,
\* or 0 for Busy
RefAllocate(tab, r) ==
    IF r # 0
    THEN IF tab[r] = NULL THEN r ELSE 0
    ELSE IF \A i \in chstart .. RIOCM_MAX_CHNUM : tab[i] # NULL
    THEN 0
    ELSE CHOOSE i \in chstart .. RIOCM_MAX_CHNUM :
             tab[i] = NULL /\ \A j \in chstart .. i - 1 : tab[j] # NULL

\* a step that is a call of riocm_ch_alloc
CreateStep == last'.op = "create" /\ <<idr, chan, last>>' # <<idr, chan, last>>

\* the call registered what the reference definition says, or reported
\* EBUSY and changed nothing
AllocAsRef ==
    LET id == RefAllocate(idr[1], last'.req)
    IN IF id = 0
       THEN last'.rc = "EBUSY" /\ idr' = idr /\ chan' = chan
       ELSE /\ last'.rc = "OK" /\ last'.id = id
            /\ idr[1][id] = NULL /\ idr'[1][id] # NULL
            /\ chan'[idr'[1][id]].id = id
            /\ \A i \in ChNums \ {id} : idr'[1][i] = idr[1][i]
            /\ last'.req = 0 => id >= chstart

\* no two registered channels share a number
UniqueIds ==
    \A n \in Nodes, i \in ChNums :
        idr[n][i] # NULL =>
            /\ chan[idr[n][i]].id = i
            /\ \A j \in ChNums : idr[n][j] = idr[n][i] => j = i

\* C11 as stated: every allocation follows the reference definition
C11_AsStated == [][CreateStep => AllocAsRef]_vars /\ []UniqueIds

\* C11: allocate(r) with r # 0 registers exactly r if r is free and reports
\* EBUSY, registry unchanged, if r is taken; allocate(0) registers the lowest
\* free number in [chstart, RIOCM_MAX_CHNUM], never one below chstart, and
\* reports EBUSY if there is none; when the channel object cannot be
\* allocated the call reports ENOMEM and registers nothing.  No two
\* registered channels share a number
C11_Allocate ==
    /\ [][CreateStep =>
            IF last'.rc = "ENOMEM" THEN idr' = idr /\ chan' = chan ELSE AllocAsRef]_vars
    /\ []UniqueIds

C11_Witness ==
    /\ last.op = "create" /\ last.req = RIOCM_CHNUM_AUTO /\ last.rc = "EBUSY"
    /\ idr[1][1] = NULL
    /\ \A i \in chstart .. RIOCM_MAX_CHNUM : idr[1][i] # NULL


(***************************************************************************)
(* Close of a channel number that is not registered, under SpecTx: a       *)
(* second thread closes a number the first has closed, while the TX ring   *)
(* and the deferred queue hold entries.                                    *)
(***************************************************************************)
\* thread t enters cm_chan_close in this step
CloseCall(t) == thr[t].pc = "idle" /\ thr'[t].op = "close"

\* C12: cm_chan_close on a number that is no longer in the registry returns
\* success and changes no channel state, registry entry, reference count, TX
\* ring or deferred-queue content, and sends no message
C12_CloseIdempotent ==
    [][\A t \in Threads :
          (CloseCall(t) /\ idr[last'.node][last'.id] = NULL) =>
              /\ thr'[t].pc = "done" /\ thr'[t].ret = "OK"
              /\ idr' = idr /\ chan' = chan /\ cm' = cm /\ inb' = inb /\ wq' = wq]_vars

C12_Witness ==
    /\ last.op = "close"
    /\ thr["t2"].op = "close" /\ thr["t2"].pc = "done" /\ thr["t2"].ch = NULL
    /\ thr["t1"].op = "close" /\ thr["t1"].ch # NULL /\ chan[thr["t1"].ch].id = last.id
    /\ chan[thr["t1"].ch].state = "DESTROYING"
    /\ cm[1].tx_cnt = RIOCM_TX_RING_SIZE /\ cm[1].tx_reqs # <<>>


(***************************************************************************)
(* SpecRel: the connected channel of SpecRx with releases of arbitrary     *)
(* buffers: one a receiver still holds, one released before, one that was  *)
(* never handed out.                                                       *)
(***************************************************************************)
NextRel ==
    \/ \E pl \in 1 .. MaxData : inb[1] = <<>> /\ Inject(1, Hdr("CM_DATA_MSG", 2, 1, 1, 1, pl))
    \/ RxMsg(1, TRUE)
    \/ \E t \in {"t1", "t2"} : RcvStart(t, 1, 1, TRUE)
    \/ \E t \in {"t1", "t2"} : RcvLock(t)
    \/ \E t \in {"t1", "t2"}, why \in {"wake", "timeout"} : RcvWake(t, why)
    \/ \E t \in {"t1", "t2"} : RcvFree(t)
    \/ \E t \in {"t1", "t2"} : Retire(t)
    \/ \E pl \in 1 .. MaxData : FreeRxbuf(1, 1, Hdr("CM_DATA_MSG", 2, 1, 1, 1, pl))

SpecRel == InitRx /\ [][NextRel]_vars

\* this step is a call of riocm_ch_free_rxbuf: on channel object RelObj, of
\* buffer RelBuf
RelStep == last'.op \in {"rcv_free", "free_rxbuf"}
RelObj == IF last'.op = "rcv_free" THEN thr[last'.thread].ch ELSE last'.ch
RelBuf == IF last'.op = "rcv_free" THEN thr[last'.thread].buf ELSE last'.buf

\* this step hands a buffer out to thread t
PopStep(t) == thr[t].pc # "rcv_free" /\ thr'[t].pc = "rcv_free"

\* no buffer is in two slots of inuse[]
InuseDistinct ==
    \A o \in Objs : \A i, j \in RxSlots :
        (chan[o].mem = "live" /\ i # j /\ chan[o].rx_ring.inuse[i] # NULLBUF)
            => chan[o].rx_ring.inuse[i] # chan[o].rx_ring.inuse[j]

\* C13: a buffer handed out by receive is in one slot of inuse[]; its release
\* succeeds, clears that slot and decrements inuse_cnt by one, after which it
\* is in no slot; the release of a buffer that is in no slot (released
\* before, or never handed out) returns EINVAL and leaves the ring unchanged
C13_ReleaseOnce ==
    /\ [][\A t \in Threads :
             PopStep(t) =>
                 /\ thr'[t].buf # NULLBUF
                 /\ \E i \in RxSlots : chan'[thr'[t].ch].rx_ring.inuse[i] = thr'[t].buf]_vars
    /\ []InuseDistinct
    /\ [][RelStep =>
             LET r == chan[RelObj].rx_ring
                 r2 == chan'[RelObj].rx_ring
             IN IF \E i \in RxSlots : r.inuse[i] = RelBuf
                THEN /\ last'.rc = "OK"
                     /\ r2.inuse_cnt = r.inuse_cnt - 1
                     /\ \E i \in RxSlots :
                            /\ r.inuse[i] = RelBuf
                            /\ r2 = [r EXCEPT !.inuse[i] = NULLBUF, !.inuse_cnt = @ - 1]
                     /\ \A j \in RxSlots : r2.inuse[j] # RelBuf
                ELSE /\ last'.rc = "EINVAL"
                     /\ r2 = r]_vars

\* a receiver's own release fails because the buffer it was handed has been
\* released already
C13_Witness ==
    /\ last.op = "rcv_free" /\ last.rc = "EINVAL"
    /\ thr[last.thread].ret = "OK" /\ thr[last.thread].msg # NULLBUF
    /\ chan[1].rx_ring.inuse_cnt = 1


(***************************************************************************)
(* SpecSend: riocm_ch_send with every kind of argument.  Channel 1 of node *)
(* 1 is connected, channel 2 is idle and is bound, made to listen or       *)
(* connected by a thread; both may be closed.                              *)
(***************************************************************************)
SendLens == {0, HdrLen + 1, RIO_MAX_MSG_SIZE, RIO_MAX_MSG_SIZE + 1}

InitSend ==
    /\ idr = [n \in Nodes |-> [i \in ChNums |-> IF n = 1 /\ i \in {1, 2} THEN i ELSE NULL]]
    /\ chan = [o \in Objs |-> IF o = 1 THEN ConnectedChan(1, 1, "f1", 2, 1)
                              ELSE IF o = 2 THEN [NewChan(1, 2) EXCEPT !.filp = "f1"]
                              ELSE NoChan]
    /\ cm = [n \in Nodes |-> IF n = 1 THEN [NewCm(1) EXCEPT !.peers = <<2>>] ELSE EmptyCm]
    /\ inb = [n \in Nodes |-> <<>>]
    /\ wq = [n \in Nodes |-> <<>>]
    /\ thr = [e \in Execs |-> IdleThr]
    /\ last = [op |-> "init"]
    /\ hist = {}

NextSend ==
    \/ \E id \in ChNums \cup {0}, len \in SendLens, hwrc \in HwRcs :
           riocm_ch_send(1, id, len, 1, hwrc)
    \/ ChanBind(1, 2)
    \/ ChanListen(1, 2)
    \/ ConnectStart("t2", 1, 2, 2, 1, TRUE, "OK")
    \/ ConnectLock("t2")
    \/ ConnectWake("t2", "timeout")
    \/ \E id \in {1, 2} : ChanClose("t1", 1, "f1", id)
    \/ ChClose1("t1", TRUE, TRUE, "OK")
    \/ ChCloseWait("t1", "done")
    \/ TxCompletion(1, cm[1].tx_slot, [i \in 1 .. Len(cm[1].tx_reqs) |-> TRUE])

SpecSend == InitSend /\ [][NextSend]_vars

\* this step is a call of riocm_ch_send with channel number id and length len
SendCall(id, len) == last'.op = "send" /\ last'.id = id /\ last'.len = len

\* nothing is submitted and no channel, reference count included, is changed
SendNoEffect == cm' = cm /\ inb' = inb /\ chan' = chan /\ idr' = idr

\* C14 as stated: a length of 0 or above RIO_MAX_MSG_SIZE is rejected with
\* EINVAL, else an id that is not registered with ENODEV, else a channel that
\* is not CONNECTED with EAGAIN, each time without effect
C14_AsStated ==
    [][\A id \in ChNums \cup {0}, len \in SendLens :
          SendCall(id, len) =>
              IF len = 0 \/ len > RIO_MAX_MSG_SIZE
              THEN last'.rc = "EINVAL" /\ SendNoEffect
              ELSE IF id = 0 \/ idr[1][id] = NULL
              THEN last'.rc = "ENODEV" /\ SendNoEffect
              ELSE chan[idr[1][id]].state # "CONNECTED"
                       => last'.rc = "EAGAIN" /\ SendNoEffect]_vars

\* C14, amended: as stated, except that channel number 0 is rejected with
\* EINVAL
C14_SendRejects ==
    [][\A id \in ChNums \cup {0}, len \in SendLens :
          SendCall(id, len) =>
              IF len = 0 \/ len > RIO_MAX_MSG_SIZE \/ id = 0
              THEN last'.rc = "EINVAL" /\ SendNoEffect
              ELSE IF idr[1][id] = NULL
              THEN last'.rc = "ENODEV" /\ SendNoEffect
              ELSE chan[idr[1][id]].state # "CONNECTED"
                       => last'.rc = "EAGAIN" /\ SendNoEffect]_vars

\* a send on a channel that is in state CONNECT was rejected with EAGAIN
\* while the ring held a packet
C14_Witness ==
    /\ last.op = "send" /\ last.rc = "EAGAIN" /\ last.id = 2
    /\ chan[2].mem = "live" /\ chan[2].state = "CONNECT"
    /\ cm[1].tx_cnt > 0


(***************************************************************************)
(* SpecData: data messages for a connected channel (1), for a registered   *)
(* channel that is not connected (2) and for a number nobody owns, while   *)
(* a thread receives on channel 1.                                         *)
(***************************************************************************)
NextData ==
    \/ \E id \in ChNums, pl \in 1 .. MaxData :
           inb[1] = <<>> /\ Inject(1, Hdr("CM_DATA_MSG", 2, 1, 1, id, pl))
    \/ RxMsg(1, TRUE)
    \/ ChanBind(1, 2)
    \/ ChanListen(1, 2)
    \/ RcvStart("t1", 1, 1, FALSE)
    \/ RcvLock("t1")
    \/ RcvWake("t1", "wake")
    \/ RcvFree("t1")
    \/ Retire("t1")

SpecData == InitSend /\ [][NextData]_vars

\* this step is rio_rx_data_handler for a data message
DataStep == last'.op = "rx" /\ last'.msg.ch_op = "CM_DATA_MSG" /\ inb'[1] # inb[1]
\* the channel object the message is for, NULL when its number is not registered
DataObj == idr[1][last'.msg.dst_ch]

\* C15: a data message for a CONNECTED channel whose RX ring holds
\* RIOCM_RX_RING_SIZE messages, for a channel that is not CONNECTED, or for a
\* number that is not registered, is dropped: no channel is changed (ring,
\* state and reference count included) and nobody is woken
C15_DataDropped ==
    [][(/\ DataStep
        /\ \/ DataObj = NULL
           \/ chan[DataObj].state # "CONNECTED"
           \/ chan[DataObj].rx_ring.count = RIOCM_RX_RING_SIZE)
          => /\ chan' = chan /\ thr' = thr /\ idr' = idr
             /\ last'.rc = IF DataObj = NULL THEN "ENODEV"
                           ELSE IF chan[DataObj].state # "CONNECTED" THEN "EIO"
                           ELSE "ENOMEM"]_vars

\* a message for channel 1 has been dropped at a full ring, which still holds
\* the messages it held
C15_Witness ==
    /\ last.op = "rx" /\ last.rc = "ENOMEM" /\ last.msg.dst_ch = 1
    /\ chan[1].state = "CONNECTED" /\ chan[1].rx_ring.count = RIOCM_RX_RING_SIZE
    /\ \A i \in RxSlots : chan[1].rx_ring.buf[i] \notin {NULLBUF, last.msg}
    /\ chan[1].rx_ring.tail # 0


(***************************************************************************)
(* SpecFifo: the connected channel of SpecRx with three receivers, one     *)
(* more than inuse[] has slots.                                            *)
(***************************************************************************)
NextFifo ==
    \/ \E pl \in 1 .. MaxData : Inject(1, Hdr("CM_DATA_MSG", 2, 1, 1, 1, pl))
    \/ RxMsg(1, TRUE)
    \/ \E t \in Threads : RcvStart(t, 1, 1, FALSE)
    \/ \E t \in Threads : RcvLock(t)
    \/ \E t \in Threads : RcvWake(t, "wake")
    \/ \E t \in Threads : RcvFree(t)
    \/ \E t \in Threads : Retire(t)

SpecFifo == InitRx /\ [][NextFifo]_vars

\* the messages of the RX ring r, oldest first
RingSeq(r) == [k \in 1 .. r.count |-> r.buf[(r.tail + k - 1) % RIOCM_RX_RING_SIZE]]

\* C16: while channel 1 is CONNECTED its RX ring is a queue: a step changes it
\* only by appending the data message the handler accepts or by removing its
\* oldest message, and the message removed is the one handed to the receiver
\* that removes it, so that receives return the accepted messages in arrival
\* order, each once
C16_Fifo ==
    [][(chan[1].state = "CONNECTED" /\ chan'[1].state = "CONNECTED") =>
          LET q == RingSeq(chan[1].rx_ring)
              q2 == RingSeq(chan'[1].rx_ring)
          IN \/ q2 = q
             \/ /\ last'.op = "rx" /\ last'.rc = "OK"
                /\ q2 = Append(q, last'.msg)
             \/ /\ q # <<>> /\ q2 = Tail(q)
                /\ \E t \in Threads :
                       /\ thr[t].pc # "rcv_free" /\ thr'[t].pc = "rcv_free"
                       /\ thr'[t].buf = Head(q)]_vars


(***************************************************************************)
(* SpecListen: listen on every channel number of node 1, whose channels    *)
(* are created, bound and closed.                                          *)
(***************************************************************************)
NextListen ==
    \/ \E id \in ChNums : ChanListen(1, id)
    \/ \E id \in ChNums : ChanBind(1, id)
    \/ ChanCreate(1, "f1", RIOCM_CHNUM_AUTO, TRUE)
    \/ \E id \in ChNums : ChanClose("t1", 1, "f1", id)
    \/ ChClose1("t1", TRUE, TRUE, "OK")
    \/ ChCloseWait("t1", "done")
    \/ Retire("t1")

SpecListen == InitSend /\ [][NextListen]_vars

\* C17: listen(id) succeeds iff id is registered and its channel is in
\* CHAN_BOUND, and the channel is then in LISTEN; otherwise it returns EINVAL
\* and no channel's state or reference count is changed
C17_Listen ==
    [][last'.op = "listen" =>
          LET o == idr[1][last'.id]
          IN IF o # NULL /\ chan[o].state = "CHAN_BOUND"
             THEN last'.rc = "OK" /\ chan' = [chan EXCEPT ![o].state = "LISTEN"]
             ELSE last'.rc = "EINVAL" /\ chan' = chan]_vars


(***************************************************************************)
(* SpecConnFail: connect calls that fail at once.  Node 1 either has its   *)
(* port, with peer 2 and the channels of SpecSend, or has no port and two  *)
(* idle channels.  A thread connects any channel number to peer 2 or to    *)
(* the unknown destination 3 while channel 1 sends, channel 2 is bound and *)
(* made to listen, and the transport accepts or refuses packets.           *)
(***************************************************************************)
NoDest == 3

InitConnFail ==
    \/ InitSend
    \/ /\ idr = [n \in Nodes |-> [i \in ChNums |-> IF n = 1 /\ i \in {1, 2} THEN i ELSE NULL]]
       /\ chan = [o \in Objs |-> IF o \in {1, 2} THEN [NewChan(1, o) EXCEPT !.filp = "f1"]
                                 ELSE NoChan]
       /\ cm = [n \in Nodes |-> EmptyCm]
       /\ inb = [n \in Nodes |-> <<>>]
       /\ wq = [n \in Nodes |-> <<>>]
       /\ thr = [e \in Execs |-> IdleThr]
       /\ last = [op |-> "init"]
       /\ hist = {}

NextConnFail ==
    \/ \E id \in ChNums, d \in {2, NoDest}, allocOk \in BOOLEAN, hwrc \in HwRcs :
           ConnectStart("t1", 1, id, d, 1, allocOk, hwrc)
    \/ ConnectLock("t1")
    \/ ConnectWake("t1", "timeout")
    \/ Retire("t1")
    \/ ChanSend(1, 1, 1, "OK")
    \/ ChanBind(1, 2)
    \/ ChanListen(1, 2)

SpecConnFail == InitConnFail /\ [][NextConnFail]_vars

\* the channel, the TX ring, the deferred queue and the mailboxes are as before
ConnNoEffect == chan' = chan /\ cm' = cm /\ inb' = inb /\ idr' = idr

\* C18: connect returns ENODEV when the port or the destination is unknown
\* and EINVAL when the channel is not IDLE, in both cases with nothing sent
\* and the channel unchanged; when the submission of the CONN_REQ fails with
\* an error other than EBUSY the channel is back in IDLE and connect returns
\* that error
C18_ConnectFails ==
    [][last'.op = "connect" =>
          LET t == last'.thread
              o == idr[1][last'.id]
              known == \E i \in 1 .. Len(cm[1].peers) : cm[1].peers[i] = last'.dest
          IN IF cm[1].mport = NULL \/ ~known
             THEN thr'[t].pc = "done" /\ thr'[t].ret = "ENODEV" /\ ConnNoEffect
             ELSE IF o # NULL /\ chan[o].state # "IDLE"
             THEN thr'[t].pc = "done" /\ thr'[t].ret = "EINVAL" /\ ConnNoEffect
             ELSE (o # NULL /\ thr'[t].rc0 \notin {"OK", "EBUSY"})
                      => /\ thr'[t].pc = "done" /\ thr'[t].ret = thr'[t].rc0
                         /\ chan'[o].state = "IDLE"]_vars

\* a connect whose CONN_REQ the transport refused has returned the
\* transport's error and its channel is in IDLE
C18_Witness ==
    /\ last.op = "connect" /\ last.dest = 2
    /\ thr[last.thread].pc = "done" /\ thr[last.thread].cas
    /\ thr[last.thread].ret = "EIO"
    /\ chan[thr[last.thread].ch].state = "IDLE"
    /\ chan[thr[last.thread].ch].rdev = 2


(***************************************************************************)
(* SpecAccept: channel 1 of node 1 listens.  Connection requests arrive    *)
(* from peer 2 and from a destination that is not a peer; two threads      *)
(* accept once each, without blocking or with a timeout, and may be        *)
(* interrupted; a third thread closes the listening channel.               *)
(***************************************************************************)
MaxAcceptQ == 2

ListenChan1 ==
    [NewChan(1, 1) EXCEPT !.filp = "f1", !.cmdev = 1, !.loc_destid = 1, !.state = "LISTEN"]

InitAccept ==
    /\ idr = [n \in Nodes |-> [i \in ChNums |-> IF n = 1 /\ i = 1 THEN 1 ELSE NULL]]
    /\ chan = [o \in Objs |-> IF o = 1 THEN ListenChan1 ELSE NoChan]
    /\ cm = [n \in Nodes |-> IF n = 1 THEN [NewCm(1) EXCEPT !.peers = <<2>>] ELSE EmptyCm]
    /\ inb = [n \in Nodes |-> <<>>]
    /\ wq = [n \in Nodes |-> <<>>]
    /\ thr = [e \in Execs |-> IdleThr]
    /\ last = [op |-> "init"]
    /\ hist = {}

Acceptors == {"t1", "t2"}

NextAccept ==
    \/ \E src \in {2, NoDest}, src_ch \in {1, 2} :
           /\ inb[1] = <<>> /\ wq[1] = <<>>
           /\ chan[1].mem = "live" /\ Len(chan[1].accept_queue) < MaxAcceptQ
           /\ src = NoDest => src_ch = 1
           /\ Inject(1, Hdr("CM_CONN_REQ", src, 1, src_ch, 1, 0))
    \/ RxMsg(1, TRUE)
    \/ CmHandler(1, TRUE)
    \/ \E t \in Acceptors, tmo \in {"noblock", "timed"} : AcceptStart(t, 1, "f1", 1, tmo)
    \/ \E t \in Acceptors, why \in WakeWhys : AcceptWake(t, why)
    \/ \E t \in Acceptors : AcceptPeer(t, TRUE, "OK")
    \/ ChanClose("t3", 1, "f1", 1)
    \/ ChClose1("t3", TRUE, TRUE, "OK")
    \/ ChCloseWait("t3", "done")

SpecAccept == InitAccept /\ [][NextAccept]_vars

\* the accept call of thread t returns in this step
AcceptReturns(t) == thr'[t].op = "accept" /\ thr'[t].pc = "done" /\ thr[t].pc # "done"

\* every accept queue and the registry are as before
AcceptNoEffect ==
    /\ idr' = idr
    /\ \A o \in Objs : chan'[o].accept_queue = chan[o].accept_queue

\* accept without blocking on a LISTEN channel whose queue is empty returns
\* EAGAIN
AcceptAgain ==
    (/\ last'.op = "accept" /\ last'.tmo = "noblock"
     /\ idr[1][last'.id] # NULL
     /\ chan[idr[1][last'.id]].state = "LISTEN"
     /\ chan[idr[1][last'.id]].accept_queue = <<>>)
        => thr'[last'.thread].pc = "done" /\ thr'[last'.thread].ret = "EAGAIN"

\* an accept that returns EAGAIN, ECANCELED, EINVAL, ETIME or EINTR leaves
\* the accept queues and the registry unchanged
AcceptErrors ==
    \A t \in Threads :
        (AcceptReturns(t) /\ thr'[t].ret \in {"EAGAIN", "ECANCELED", "EINVAL", "ETIME", "EINTR"})
            => AcceptNoEffect

\* requests enter an accept queue at its tail and leave it at its head, into
\* the new channel of the accept that takes them
AcceptOrder ==
    /\ (last'.op = "work" /\ last'.msg.ch_op = "CM_CONN_REQ" /\ last'.rc = "OK")
           => chan'[last'.ch].accept_queue =
                  Append(chan[last'.ch].accept_queue,
                         [destid |-> last'.msg.src_id, chan |-> last'.msg.src_ch, cmdev |-> 1])
    /\ \A t \in Threads :
           (thr[t].pc # "acc_peer" /\ thr'[t].pc = "acc_peer") =>
               LET o == thr'[t].ch
                   q == chan[o].accept_queue
                   new == chan'[thr'[t].new]
               IN /\ q # <<>> /\ chan'[o].accept_queue = Tail(q)
                  /\ new.rem_destid = Head(q).destid /\ new.rem_channel = Head(q).chan
    /\ \A o \in Objs :
           chan'[o].accept_queue # chan[o].accept_queue =>
               \/ last'.op = "work"
               \/ \E t \in Threads : thr[t].pc # "acc_peer" /\ thr'[t].pc = "acc_peer"

\* thread t wakes in riocm_wait_for_connect_req in this step and finds that
\* its channel has left LISTEN with an empty queue
WakesCanceled(t) ==
    /\ last'.op = "acc_wake" /\ last'.thread = t
    /\ chan[thr[t].ch].state # "LISTEN"
    /\ chan[thr[t].ch].accept_queue = <<>>

\* C19 as stated: a blocked accept whose channel has left LISTEN with an
\* empty queue returns ECANCELED
C19_AsStated ==
    [][/\ AcceptAgain /\ AcceptErrors /\ AcceptOrder
       /\ \A t \in Threads :
              WakesCanceled(t) => thr'[t].pc = "done" /\ thr'[t].ret = "ECANCELED"]_vars

\* C19, amended: it returns ECANCELED, or EINTR when a signal is pending
C19_Accept ==
    [][/\ AcceptAgain /\ AcceptErrors /\ AcceptOrder
       /\ \A t \in Threads :
              WakesCanceled(t) =>
                  /\ thr'[t].pc = "done"
                  /\ thr'[t].ret = IF last'.why = "signal" THEN "EINTR" ELSE "ECANCELED"]_vars

\* a blocked accept has returned ECANCELED from the closed listening channel
\* after another accept took the first of two requests
C19_Witness ==
    /\ last.op = "acc_wake" /\ thr[last.thread].ret = "ECANCELED"
    /\ chan[1].state = "DESTROYING"
    /\ \E t \in Acceptors : thr[t].op = "accept" /\ thr[t].new # NULL


\* thread t's accept has returned ENODEV: the requester of the request it
\* took is not a peer
AcceptNoPeer(t) ==
    thr[t].op = "accept" /\ thr[t].pc = "done" /\ thr[t].ret = "ENODEV"

\* C20: when accept takes a request whose requester is not on the peer list
\* it returns ENODEV without sending a CONN_ACK, and afterwards the new
\* channel's number is not registered and every registered channel has a
\* reference count of at least 1
C20_AcceptNoPeer ==
    /\ [][(last'.op = "acc_peer" /\ last'.rc = "ENODEV") => cm' = cm /\ inb' = inb]_vars
    /\ [](\A t \in Threads :
              AcceptNoPeer(t) =>
                  /\ idr[1][chan[thr[t].new].id] = NULL
                  /\ \A i \in ChNums : idr[1][i] # NULL => chan[idr[1][i]].ref >= 1)


(***************************************************************************)
(* SpecCloseTx: the close procedure from every state.  Channel 1 of node 1 *)
(* is connected to peer 2; channel 2 is idle and is bound, made to listen  *)
(* or connected.  They are closed by their owner, by a received CONN_CLOSE *)
(* and by the removal of peer 2 (shut down or not), with a TX ring that    *)
(* data sends fill and with allocations that may fail.                     *)
(***************************************************************************)
CloseTxExecs == {"t1", "t3", "w1"}

NextCloseTx ==
    \/ ChanBind(1, 2)
    \/ ChanListen(1, 2)
    \/ ConnectStart("t2", 1, 2, 2, 1, TRUE, "OK")
    \/ ChanSend(1, 1, 1, "OK")
    \/ \E id \in {1, 2} : ChanClose("t1", 1, "f1", id)
    \/ \E shut \in BOOLEAN : RemoveDev("t3", 1, 2, shut)
    \/ /\ inb[1] = <<>> /\ wq[1] = <<>> /\ idr[1][1] # NULL
       /\ Inject(1, Hdr("CM_CONN_CLOSE", 2, 1, 1, 1, 0))
    \/ RxMsg(1, TRUE)
    \/ CmHandler(1, TRUE)
    \/ CloseExch(1)
    \/ \E e \in CloseTxExecs, hdrOk \in BOOLEAN, allocOk \in BOOLEAN, hwrc \in HwRcs :
           /\ thr[e].pc = "ch_close"
           /\ chan[Head(thr[e].todo)].state # "CONNECTED" => (hdrOk /\ allocOk /\ hwrc = "OK")
           /\ ChClose1(e, hdrOk, allocOk, hwrc)
    \/ \E e \in CloseTxExecs : ChCloseWait(e, "done")

SpecCloseTx == InitSend /\ [][NextCloseTx]_vars

\* this step is riocm_ch_close up to its wait
CloseStep == last'.op = "ch_close"
\* this step puts a packet into the TX ring or onto the deferred queue
TxTaken == \E n \in Nodes : cm'[n] # cm[n]

NextPortRm ==
    \/ /\ inb[1] = <<>> /\ wq[1] = <<>> /\ cm[1].up
       /\ chan[1].accept_queue = <<>>
       /\ Inject(1, Hdr("CM_CONN_REQ", 2, 1, 1, 1, 0))
    \/ cm[1].up /\ RxMsg(1, TRUE)
    \/ CmHandler(1, TRUE)
    \/ \E tmo \in {"timed", "forever"} : AcceptStart("t1", 1, "f1", 1, tmo)
    \/ \E why \in WakeWhys : AcceptWake("t1", why)
    \/ cm[1].mport # NULL /\ AcceptPeer("t1", TRUE, "OK")
    \/ MportDown("t3", 1)
    \/ MportSweep("t3")
    \/ ChClose1("t3", TRUE, TRUE, "OK")
    \/ \E how \in {"done", "timeout"} : ChCloseWait("t3", how)
    \/ MportFree("t3")

SpecPortRm == InitAccept /\ [][NextPortRm]_vars

\* riocm_remove_mport has returned on node 1
PortRemoved == thr["t3"].op = "remove_mport" /\ thr["t3"].pc = "done"

\* C22: once riocm_remove_mport has returned, no channel in the IDR has the
\* removed mport's cm_dev as its cmdev
C22_RemovePort == PortRemoved => \A o \in Registered(1) : chan[o].cmdev # 1


(***************************************************************************)
(* SpecWaiters: channel 1 of node 1 is connected and channel 2 idle.       *)
(* Thread t1 receives on channel 1, thread t2 connects or accepts on       *)
(* channel 2, both without a timeout of their own and without signals;     *)
(* thread t3 closes the channels.  Every thread that can run is scheduled  *)
(* in the end, and the closer's wait for the completion ends: by the       *)
(* completion or by its own timeout.                                       *)
(***************************************************************************)
NextWaiters ==
    \/ RcvStart("t1", 1, 1, FALSE)
    \/ RcvLock("t1")
    \/ RcvWake("t1", "wake")
    \/ ChanBind(1, 2)
    \/ ChanListen(1, 2)
    \/ AcceptStart("t2", 1, "f1", 2, "forever")
    \/ AcceptWake("t2", "wake")
    \/ ConnectStart("t2", 1, 2, 2, 1, TRUE, "OK")
    \/ ConnectLock("t2")
    \/ ConnectWake("t2", "wake")
    \/ \E id \in {1, 2} : ChanClose("t3", 1, "f1", id)
    \/ ChClose1("t3", TRUE, TRUE, "OK")
    \/ \E how \in {"done", "timeout"} : ChCloseWait("t3", how)
    \/ Retire("t3")

FairWaiters ==
    /\ WF_vars(RcvLock("t1"))
    /\ WF_vars(RcvWake("t1", "wake"))
    /\ WF_vars(AcceptWake("t2", "wake"))
    /\ WF_vars(ConnectLock("t2"))
    /\ WF_vars(ConnectWake("t2", "wake"))
    /\ WF_vars(ChClose1("t3", TRUE, TRUE, "OK"))
    /\ WF_vars(\E how \in {"done", "timeout"} : ChCloseWait("t3", how))

SpecWaiters == InitSend /\ [][NextWaiters]_vars /\ FairWaiters

\* thread t is inside connect, accept or receive on a channel that has been
\* closed
InClosed(t) ==
    /\ thr[t].op \in {"connect", "accept", "receive"}
    /\ thr[t].pc # "done"
    /\ chan[thr[t].ch].state = "DESTROYING"

\* C23: a thread that is waiting in, or entering, connect, accept or receive
\* on a channel that is closed returns in the end, without a timeout of its
\* own
C23_WaitersReturn ==
    \A t \in {"t1", "t2"} : InClosed(t) ~> (thr[t].pc = "done")


(***************************************************************************)
(* SpecLocks: accept and peer removal at the grain of their spinlocks.     *)
(* thr[e].locks is the sequence of locks executor e holds, in the order it *)
(* took them.  Channel 1 of node 1 is connected to peer 2; channel 2 is    *)
(* idle and may go through a connect to peer 2 that the transport rejects, *)
(* then bind and listen, and receive connection requests.  The steps that  *)
(* take and drop their locks within one action run while no lock is held.  *)
(***************************************************************************)
Lk(kind, o) == [kind |-> kind, obj |-> o]
IdrLock == Lk("idr_lock", 0)
ChLock(o) == Lk("ch_lock", o)

\* the documented order: rdev_sem, idr_lock, a channel's lock, tx_lock
LockRank(l) ==
    CASE l.kind = "rdev_sem" -> 1
      [] l.kind = "idr_lock" -> 2
      [] l.kind = "ch_lock" -> 3
      [] l.kind = "tx_lock" -> 4

LocksOf(e) == {thr[e].locks[i] : i \in 1 .. Len(thr[e].locks)}
LockFree(l) == \A e \in Execs : l \notin LocksOf(e)
Quiet == \A e \in Execs : thr[e].locks = <<>>

\* the channel objects of S by ascending channel number, the order in which
\* idr_for_each_entry visits them
RECURSIVE IdrOrder(_)
IdrOrder(S) ==
    IF S = {} THEN <<>>
    ELSE LET o == CHOOSE x \in S : \A y \in S : chan[x].id <= chan[y].id
         IN <<o>> \o IdrOrder(S \ {o})

\* riocm_ch_accept, line 1181: riocm_get_channel takes and drops idr_lock
LkAcceptGet(t, n, id) ==
    /\ thr[t].pc = "idle"
    /\ LockFree(IdrLock)
    /\ LET o == idr_find(n, id)
           me == [IdleThr EXCEPT !.op = "accept", !.node = n, !.ch = o, !.filp = "f1"]
       IN IF o = NULL
          THEN /\ thr' = [thr EXCEPT ![t] = [me EXCEPT !.pc = "done", !.ret = "EINVAL"]]
               /\ UNCHANGED chan
          ELSE /\ chan' = [chan EXCEPT ![o] = riocm_get_ref(chan[o])]
               /\ thr' = [thr EXCEPT ![t] = [me EXCEPT !.pc = "acc_lock"]]
    /\ last' = [op |-> "accept", node |-> n, id |-> id, thread |-> t, tmo |-> "noblock"]
    /\ UNCHANGED <<idr, cm, inb, wq, hist>>

\* riocm_ch_accept with timeout 0, lines 1185-1206: take the channel's lock,
\* leave with EINVAL or EAGAIN, or keep the lock for the first request
LkAcceptLock(t) ==
    /\ thr[t].pc = "acc_lock"
    /\ LET o == thr[t].ch
           c == chan[o]
       IN /\ LockFree(ChLock(o))
          /\ IF c.state # "LISTEN"
             THEN PutReturn(t, o, c, "EINVAL")
             ELSE IF c.accept_queue = <<>>
             THEN PutReturn(t, o, c, "EAGAIN")
             ELSE /\ thr' = [thr EXCEPT ![t].pc = "acc_alloc", ![t].locks = <<ChLock(o)>>]
                  /\ UNCHANGED chan
    /\ last' = [op |-> "acc_lock", node |-> thr[t].node, thread |-> t]
    /\ UNCHANGED <<idr, cm, inb, wq, hist>>

\* riocm_ch_accept, line 1209: riocm_ch_alloc takes idr_lock (line 1369)
\* with the listening channel's lock held
LkAcceptAlloc(t) ==
    /\ thr[t].pc = "acc_alloc"
    /\ LockFree(IdrLock)
    /\ thr' = [thr EXCEPT ![t].pc = "acc_fill", ![t].locks = Append(@, IdrLock)]
    /\ last' = [op |-> "acc_alloc", node |-> thr[t].node, thread |-> t]
    /\ UNCHANGED <<idr, chan, cm, inb, wq, hist>>

\* riocm_ch_accept, lines 1371 and 1218-1225: the new channel is registered
\* and filled in, idr_lock and the listening channel's lock are dropped
LkAcceptFill(t) ==
    /\ thr[t].pc = "acc_fill"
    /\ AcceptTake(t, [thr[t] EXCEPT !.locks = <<>>], thr[t].ch, chan[thr[t].ch])
    /\ last' = [op |-> "acc_fill", node |-> thr[t].node, thread |-> t]
    /\ UNCHANGED <<cm, inb, wq, hist>>

\* riocm_remove_dev(rdev) for a device that is not shut down, lines
\* 2041-2084: the peer entry goes and idr_lock is taken
LkRemoveLock(t, n, rdev) ==
    /\ thr[t].pc = "idle"
    /\ cm[n].up
    /\ IsPeer(n, rdev)
    /\ LockFree(IdrLock)
    /\ cm' = [cm EXCEPT ![n].peers = SelectSeq(@, LAMBDA p : p # rdev)]
    /\ thr' = [thr EXCEPT ![t] =
                 [IdleThr EXCEPT !.op = "remove_dev", !.node = n, !.rdev = rdev,
                                 !.pc = "rm_scan", !.locks = <<IdrLock>>,
                                 !.todo = IdrOrder({o \in Registered(n) : chan[o].rdev = rdev})]]
    /\ last' = [op |-> "remove_dev", node |-> n, rdev |-> rdev, shut |-> FALSE, swept |-> {}]
    /\ UNCHANGED <<idr, chan, inb, wq, hist>>

\* riocm_remove_dev, lines 2085-2091, for one channel of the device:
\* riocm_exch takes the channel's lock under idr_lock
LkRemoveExch(t) ==
    /\ thr[t].pc = "rm_scan"
    /\ thr[t].todo # <<>>
    /\ LET o == Head(thr[t].todo)
       IN /\ LockFree(ChLock(o))
          /\ chan' = [chan EXCEPT ![o].state = "DISCONNECT"]
          /\ idr' = idr_sweep(thr[t].node, {o})
          /\ thr' = [thr EXCEPT ![t].todo = Tail(@), ![t].objs = @ \cup {o}]
          /\ last' = [op |-> "rm_exch", node |-> thr[t].node, ch |-> o, old |-> chan[o].state]
    /\ UNCHANGED <<cm, inb, wq, hist>>

\* riocm_remove_dev, line 2093: idr_lock is dropped; the closes follow
LkRemoveUnlock(t) ==
    /\ thr[t].pc = "rm_scan"
    /\ thr[t].todo = <<>>
    /\ thr' = [thr EXCEPT ![t] = [StartSweep(t, "remove_dev", thr[t].node, thr[t].objs) EXCEPT
                                     !.rdev = thr[t].rdev]]
    /\ last' = [op |-> "rm_unlock", node |-> thr[t].node, swept |-> thr[t].objs]
    /\ UNCHANGED <<idr, chan, cm, inb, wq, hist>>

NextLocks ==
    \/ Quiet /\ ConnectStart("t2", 1, 2, 2, 1, TRUE, "EIO")
    \/ Quiet /\ ChanBind(1, 2)
    \/ Quiet /\ ChanListen(1, 2)
    \/ /\ Quiet /\ inb[1] = <<>> /\ wq[1] = <<>>
       /\ chan[2].accept_queue = <<>>
       /\ Inject(1, Hdr("CM_CONN_REQ", 2, 1, 1, 2, 0))
    \/ Quiet /\ RxMsg(1, TRUE)
    \/ Quiet /\ CmHandler(1, TRUE)
    \/ LkAcceptGet("t1", 1, 2)
    \/ LkAcceptLock("t1")
    \/ LkAcceptAlloc("t1")
    \/ LkAcceptFill("t1")
    \/ LkRemoveLock("t3", 1, 2)
    \/ LkRemoveExch("t3")
    \/ LkRemoveUnlock("t3")
    \/ Quiet /\ ChClose1("t3", TRUE, TRUE, "OK")
    \/ Quiet /\ \E how \in {"done", "timeout"} : ChCloseWait("t3", how)
    \/ Retire("t1")
    \/ Retire("t2")

SpecLocks == InitSend /\ [][NextLocks]_vars

\* executor a holds a channel's lock and waits for idr_lock while executor
\* b holds idr_lock and waits for that channel's lock
LockCycle ==
    \E a, b \in Execs :
        /\ thr[a].pc = "acc_alloc" /\ IdrLock \in LocksOf(b)
        /\ thr[b].pc = "rm_scan" /\ thr[b].todo # <<>>
        /\ ChLock(Head(thr[b].todo)) \in LocksOf(a)

\* C24: every executor holds its locks in the order rdev_sem, idr_lock,
\* channel lock, tx_lock, and never two channel locks
C24_LockOrder ==
    \A e \in Execs : \A i, j \in 1 .. Len(thr[e].locks) :
        i < j => LockRank(thr[e].locks[i]) < LockRank(thr[e].locks[j])


(***************************************************************************)
(* SpecFree: channel 1 of node 1 listens.  A connection request from a     *)
(* destination that is not a peer is accepted, a thread connects on the    *)
(* channel that accept created, and peer 2 is removed.                     *)
(***************************************************************************)
NextFree ==
    \/ /\ inb[1] = <<>> /\ wq[1] = <<>>
       /\ chan[1].accept_queue = <<>> /\ idr[1][2] = NULL
       /\ Inject(1, Hdr("CM_CONN_REQ", NoDest, 1, 1, 1, 0))
    \/ RxMsg(1, TRUE)
    \/ CmHandler(1, TRUE)
    \/ AcceptStart("t1", 1, "f1", 1, "noblock")
    \/ AcceptPeer("t1", TRUE, "OK")
    \/ ConnectStart("t2", 1, 2, 2, 1, TRUE, "OK")
    \/ ConnectLock("t2")
    \/ \E why \in {"wake", "timeout"} : ConnectWake("t2", why)
    \/ \E shut \in BOOLEAN : RemoveDev("t3", 1, 2, shut)
    \/ ChClose1("t3", TRUE, TRUE, "OK")
    \/ \E how \in {"done", "timeout"} : ChCloseWait("t3", how)
    \/ Retire("t1")

SpecFree == InitAccept /\ [][NextFree]_vars

\* executor e is between riocm_get_channel and riocm_put_channel on channel
\* object o
HoldsRef(e, o) ==
    /\ thr[e].ch = o
    /\ thr[e].pc \in {"conn_lock", "conn_wait", "acc_wait", "rcv_lock", "rcv_wait", "rcv_free"}

\* C25: a channel object is not freed while an executor holds a reference
\* it got by looking the channel up
C25_FreeAfterRefs ==
    \A o \in Objs : chan[o].mem = "freed" => \A e \in Execs : ~HoldsRef(e, o)


\* C26: every CONNECTED channel has a peer device, a remote destination ID
\* equal to that device's destid, and a remote channel number
C26_ConnectedPeer ==
    \A o \in Objs :
        (chan[o].mem = "live" /\ chan[o].state = "CONNECTED") =>
            /\ chan[o].rdev # NULL
            /\ chan[o].rem_destid = chan[o].rdev
            /\ chan[o].rem_channel # 0


\* channel object o is bound, listening, connecting or connected
InService(o) ==
    chan[o].mem = "live" /\ chan[o].state \in {"CHAN_BOUND", "LISTEN", "CONNECT", "CONNECTED"}

StateTable ==
    {<<"IDLE", "CHAN_BOUND">>, <<"CHAN_BOUND", "LISTEN">>, <<"IDLE", "CONNECT">>,
     <<"CONNECT", "CONNECTED">>, <<"CONNECT", "IDLE">>, <<"CONNECTED", "DISCONNECT">>}
       \cup {<<s, "DESTROYING">> : s \in {"IDLE", "CHAN_BOUND", "LISTEN", "CONNECT",
                                           "CONNECTED", "DISCONNECT", "DESTROYING"}}

\* C28: every change of a channel's state is a transition of the state table
C28_Transitions ==
    [][\A o \in Objs :
          (chan[o].mem = "live" /\ chan'[o].state # chan[o].state)
              => <<chan[o].state, chan'[o].state>> \in StateTable]_vars


(***************************************************************************)
(* SpecAckClose: a thread connects idle channel 2 of node 1 to peer 2, a   *)
(* CONN_ACK for channel 2 arrives, and the owner closes channel 2.         *)
(***************************************************************************)
NextAckClose ==
    \/ ConnectStart("t2", 1, 2, 2, 1, TRUE, "OK")
    \/ ConnectLock("t2")
    \/ \E why \in {"wake", "timeout"} : ConnectWake("t2", why)
    \/ /\ inb[1] = <<>> /\ wq[1] = <<>>
       /\ thr["t2"].op = "connect" /\ thr["w1"].pc = "idle"
       /\ Inject(1, Hdr("CM_CONN_ACK", 2, 1, 1, 2, 0))
    \/ RxMsg(1, TRUE)
    \/ CmHandler(1, TRUE)
    \/ RespExch(1)
    \/ RespSet(1)
    \/ ChanClose("t1", 1, "f1", 2)
    \/ ChClose1("t1", TRUE, TRUE, "OK")
    \/ \E how \in {"done", "timeout"} : ChCloseWait("t1", how)

SpecAckClose == InitSend /\ [][NextAckClose]_vars

\* C29: a channel whose state is DESTROYING stays in DESTROYING
C29_Absorbing ==
    [][\A o \in Objs :
          (chan[o].mem = "live" /\ chan[o].state = "DESTROYING")
              => chan'[o].state = "DESTROYING"]_vars


\* executor e sleeps in riocm_ch_close for a destruction completion that has
\* not fired
WaitsForCompletion(e) ==
    thr[e].pc = "ch_wait" /\ chan[Head(thr[e].todo)].comp = 0

\* C30: the control worker never sleeps on a channel's wait queue or on a
\* channel's destruction completion
C30_WorkerNeverWaits ==
    \A w \in Workers :
        /\ thr[w].pc \notin {"conn_wait", "acc_wait", "rcv_wait"}
        /\ ~WaitsForCompletion(w)


(***************************************************************************)
(* SpecTorn: channel 1 of node 1 is connected and channel 2 may be bound   *)
(* and listen.  The owner closes channels by number while the mport is     *)
(* removed; a close that has unpublished its channel before the sweep can  *)
(* reach riocm_send_close after the cm_dev has been freed.  What the freed *)
(* memory holds is open: zeroes, or what the cm_dev held.                  *)
(***************************************************************************)
TornClosers == {"t1", "t3"}

NextTorn ==
    \/ ChanBind(1, 2)
    \/ ChanListen(1, 2)
    \/ \E hwrc \in HwRcs : ChanSend(1, 1, 1, hwrc)
    \/ \E id \in {1, 2} : ChanClose("t1", 1, "f1", id)
    \/ MportDown("t3", 1)
    \/ MportSweep("t3")
    \/ MportFree("t3")
    \/ MportFreeStale("t3")
    \/ \E e \in TornClosers, allocOk \in BOOLEAN, hwrc \in HwRcs :
           /\ thr[e].pc = "ch_close"
           /\ chan[Head(thr[e].todo)].state # "CONNECTED" => (allocOk /\ hwrc = "OK")
           /\ ChClose1(e, TRUE, allocOk, hwrc)
    \/ \E e \in TornClosers, how \in {"done", "timeout"} : ChCloseWait(e, how)
    \/ Retire("t1")

SpecTorn == InitSend /\ [][NextTorn]_vars

\* C31: once riocm_remove_mport has returned, a submit to the removed
\* mport's cm_dev returns ENODEV and leaves the TX ring and the deferred
\* queue as they were
C31_TornDown ==
    [][(PortRemoved /\ last'.op = "ch_close" /\ last'.req)
           => (last'.rc = "ENODEV" /\ cm' = cm /\ inb' = inb)]_vars


\* a control message that is submitted while requests wait on tx_reqs takes no
\* ring slot and does not reach the transport; if it is queued, it is queued
\* behind them
C32_Submit ==
    (last'.op = "ch_close" /\ last'.sub /\ cm[last'.node].tx_reqs # <<>>) =>
        LET c == cm[last'.node]
            d == cm'[last'.node]
        IN /\ TxRing(d) = TxRing(c)
           /\ inb' = inb
           /\ last'.rc \in {"EBUSY", "ENOMEM"}
           /\ last'.rc = "EBUSY" => DeferredOne(c, d, last'.ch)
           /\ last'.rc = "ENOMEM" => d.tx_reqs = c.tx_reqs

\* a completion takes requests from the front of tx_reqs only, and the ring
\* holds them in the order they had on the list
C32_Drain ==
    (last'.op = "txcq") =>
        LET c == cm[last'.node]
            d == cm'[last'.node]
            h == last'.handed
        IN /\ h <= Len(c.tx_reqs)
           /\ d.tx_reqs = SubSeq(c.tx_reqs, h + 1, Len(c.tx_reqs))
           /\ \A i \in 1 .. h :
                 d.tx_buf[(d.tx_slot + RIOCM_TX_RING_SIZE - h + i - 1) % RIOCM_TX_RING_SIZE]
                     = c.tx_reqs[i].buffer

\* C32: deferred control messages are handed to the transport in the order
\* they were queued, and no control message submitted later reaches the
\* transport before one that still waits on the deferred queue
C32_DeferredOrder == [][C32_Submit /\ C32_Drain]_vars

C32_Witness ==
    /\ last.op = "txcq" /\ Len(last.reqs) = 2 /\ last.handed = 1
    /\ Len(cm[1].tx_reqs) = 1
    /\ cm[1].tx_reqs[1] = last.reqs[2]

\* C39: between operations on the TX path (tx_lock is free), a cm_dev with
\* requests on tx_reqs has a full TX ring
C39_DeferredImpliesFull ==
    \A n \in Nodes : cm[n].tx_reqs # <<>> => cm[n].tx_cnt = RIOCM_TX_RING_SIZE

C39_Witness ==
    /\ last.op = "txcq" /\ last.cnt = RIOCM_TX_RING_SIZE /\ last.handed >= 1
    /\ cm[1].tx_reqs # <<>> /\ cm[1].tx_cnt = RIOCM_TX_RING_SIZE


\* C38: a submit the transport rejects (rio_add_outb_message fails) leaves the
\* TX ring as it was: tx_cnt and tx_slot are not advanced and no slot holds
\* the rejected message
C38_RejectedSubmit ==
    [][(last'.op \in {"send", "ch_close"} /\ last'.sub /\ last'.rc = "EIO")
           => TxRing(cm'[last'.node]) = TxRing(cm[last'.node])]_vars


(***************************************************************************)
(* SpecDefer: control messages at a full TX ring.  Channel 1 of node 1     *)
(* sends data until the ring is full.  Channel 2 is either connected to    *)
(* node 2 by thread t1, or bound and put in LISTEN so that thread t2       *)
(* accepts a connection request that arrives for it.  Completions drain    *)
(* the deferred requests at any time.                                      *)
(***************************************************************************)
\* where the header of a control message lives: struct rio_ch_chan_hdr hdr is
\* a local variable of riocm_ch_connect (line 986) and of riocm_send_ack
\* (line 1134); riocm_send_close allocates it with kzalloc (line 1463)
HdrStorage(ch_op) ==
    CASE ch_op = "CM_CONN_REQ" -> "stack"
      [] ch_op = "CM_CONN_ACK" -> "stack"
      [] ch_op = "CM_CONN_CLOSE" -> "kzalloc"
      [] OTHER -> "caller"

\* the call that built header b on its stack has not returned: a thread is
\* still in riocm_ch_connect for the channel b names.  riocm_send_ack returns
\* as soon as the submit has, so its header is never live between steps
FrameLive(n, b) ==
    /\ b.ch_op = "CM_CONN_REQ"
    /\ \E t \in Threads :
          /\ thr[t].op = "connect" /\ thr[t].node = n
          /\ thr[t].pc \in {"conn_lock", "conn_wait"}
          /\ thr[t].ch # NULL /\ chan[thr[t].ch].id = b.src_ch

NextDefer ==
    \/ ChanSend(1, 1, 1, "OK")
    \/ \E allocOk \in BOOLEAN : ConnectStart("t1", 1, 2, 2, 1, allocOk, "OK")
    \/ ConnectLock("t1")
    \/ \E why \in WakeWhys : ConnectWake("t1", why)
    \/ ChanBind(1, 2)
    \/ ChanListen(1, 2)
    \/ /\ inb[1] = <<>> /\ wq[1] = <<>>
       /\ chan[2].state = "LISTEN" /\ chan[2].accept_queue = <<>>
       /\ Inject(1, Hdr("CM_CONN_REQ", 2, 1, 1, 2, 0))
    \/ RxMsg(1, TRUE)
    \/ CmHandler(1, TRUE)
    \/ \E tmo \in {"noblock", "timed"} : AcceptStart("t2", 1, "f1", 2, tmo)
    \/ \E why \in WakeWhys : AcceptWake("t2", why)
    \/ \E allocOk \in BOOLEAN : AcceptPeer("t2", allocOk, "OK")
    \/ \E slot \in CqSlots, hwok \in [1 .. Len(cm[1].tx_reqs) -> BOOLEAN] :
           TxCompletion(1, slot, hwok)

SpecDefer == InitSend /\ [][NextDefer]_vars

\* C33: the payload of every request on tx_reqs is storage the queue owns
\* and that is valid when the completion handler transmits and frees it: no
\* deferred CONN_REQ or CONN_ACK points into the stack of a call that has
\* returned
C33_DeferredPayload ==
    \A n \in Nodes : \A i \in 1 .. Len(cm[n].tx_reqs) :
        LET b == cm[n].tx_reqs[i].buffer
        IN HdrStorage(b.ch_op) = "stack" => FrameLive(n, b)


(***************************************************************************)
(* SpecRcv: concurrent receivers of one channel.  Data messages arrive for *)
(* the connected channel 1 of node 1 and every thread receives from it     *)
(* once; a receive that got a message releases its buffer afterwards, as   *)
(* cm_chan_msg_rcv does.                                                   *)
(***************************************************************************)
NextRcv ==
    \/ \E pl \in 1 .. MaxData :
           /\ inb[1] = <<>>
           /\ Inject(1, Hdr("CM_DATA_MSG", 2, 1, 1, 1, pl))
    \/ RxMsg(1, TRUE)
    \/ \E t \in Threads : RcvStart(t, 1, 1, TRUE)
    \/ \E t \in Threads : RcvLock(t)
    \/ \E t \in Threads, why \in WakeWhys : RcvWake(t, why)
    \/ \E t \in Threads : RcvFree(t)

SpecRcv == InitRx /\ [][NextRcv]_vars

\* C34: a buffer that receive takes from a channel's RX ring is recorded in
\* a free inuse slot and returned to the caller, however many receive calls
\* run on the channel at once: no step takes a buffer from the ring without
\* a thread leaving the step with that buffer stored in inuse[]
C34_NoDiscard ==
    [][\A o \in Objs :
          chan'[o].rx_ring.count < chan[o].rx_ring.count =>
              \E t \in Threads :
                  /\ thr[t].pc # "rcv_free" /\ thr'[t].pc = "rcv_free"
                  /\ thr'[t].buf = chan[o].rx_ring.buf[chan[o].rx_ring.tail]
                  /\ \E i \in RxSlots : /\ chan[o].rx_ring.inuse[i] = NULLBUF
                                        /\ chan'[o].rx_ring.inuse[i] = thr'[t].buf]_vars


\* the executors that have channel object o on their list of channels to close
ClosersOf(o) == {e \in Execs : \E i \in 1 .. Len(thr[e].todo) : thr[e].todo[i] = o}

NextAckData ==
    \/ ConnectStart("t2", 1, 2, 2, 1, TRUE, "OK")
    \/ ConnectLock("t2")
    \/ \E why \in {"wake", "timeout"} : ConnectWake("t2", why)
    \/ /\ inb[1] = <<>> /\ wq[1] = <<>>
       /\ thr["t2"].op = "connect" /\ thr["w1"].pc = "idle"
       /\ chan[2].state = "CONNECT"
       /\ Inject(1, Hdr("CM_CONN_ACK", 2, 1, 1, 2, 0))
    \/ \E pl \in 1 .. MaxData :
           /\ thr["t2"].op = "connect"
           /\ chan[2].rx_ring.count < RIOCM_RX_RING_SIZE
           /\ Inject(1, Hdr("CM_DATA_MSG", 2, 1, 1, 2, pl))
    \/ RxMsg(1, TRUE)
    \/ CmHandler(1, TRUE)
    \/ RespExch(1)
    \/ RespSet(1)

SpecAckData == InitSend /\ [][NextAckData]_vars

\* a CONN_ACK for channel number id of node n has been taken from the mailbox
\* and waits for the control worker, the channel being in CONNECT
AckPending(n, id) ==
    /\ \E i \in 1 .. Len(wq[n]) : wq[n][i].ch_op = "CM_CONN_ACK" /\ wq[n][i].dst_ch = id
    /\ idr[n][id] # NULL /\ chan[idr[n][id]].state = "CONNECT"

\* C36: a data message that arrives on a port after the CONN_ACK for its
\* channel (the channel being in CONNECT) is put on the channel's RX ring and
\* not dropped for wrong state
C36_ArrivalOrder ==
    [][(/\ last'.op = "rx" /\ last'.msg.ch_op = "CM_DATA_MSG"
        /\ AckPending(last'.node, last'.msg.dst_ch))
           => last'.rc = "OK"]_vars


(***************************************************************************)
(* SpecCloseSrc: CONN_CLOSE messages for the channels of node 1 arrive     *)
(* from the peer that channel 1 is connected to and from elsewhere, naming *)
(* the remote channel of the connection or another one, while channel 1    *)
(* sends data.                                                             *)
(***************************************************************************)
NextCloseSrc ==
    \/ \E hwrc \in HwRcs : ChanSend(1, 1, 1, hwrc)
    \/ \E src \in {2, NoDest}, src_ch \in {1, 2}, dst_ch \in {1, 2} :
           /\ inb[1] = <<>> /\ wq[1] = <<>>
           /\ Inject(1, Hdr("CM_CONN_CLOSE", src, 1, src_ch, dst_ch, 0))
    \/ RxMsg(1, TRUE)
    \/ CmHandler(1, TRUE)
    \/ CloseExch(1)
    \/ \E allocOk \in BOOLEAN, hwrc \in HwRcs :
           /\ thr["w1"].pc = "ch_close"
           /\ chan[Head(thr["w1"].todo)].state # "CONNECTED" => (allocOk /\ hwrc = "OK")
           /\ ChClose1("w1", TRUE, allocOk, hwrc)
    \/ \E how \in {"done", "timeout"} : ChCloseWait("w1", how)
    \/ \E slot \in CqSlots, hwok \in [1 .. Len(cm[1].tx_reqs) -> BOOLEAN] :
           TxCompletion(1, slot, hwok)

SpecCloseSrc == InitSend /\ [][NextCloseSrc]_vars

\* C37: a received CONN_CLOSE takes a channel out of CONNECTED only if its
\* source destid and source channel are the channel's rem_destid and
\* rem_channel
C37_CloseSource ==
    [][\A o \in Objs :
          (/\ last'.op = "close_exch" /\ last'.ch = o
           /\ chan[o].state = "CONNECTED" /\ chan'[o].state # "CONNECTED")
              => LET hh == thr[WorkerOf(last'.node)].msg
                 IN hh.src_id = chan[o].rem_destid /\ hh.src_ch = chan[o].rem_channel]_vars

=============================================================================
